---- MODULE Spec2Model ----
(***************************************************************************)
(* Export jobs of the video editor: the job store and the queue            *)
(* (export-service), the HTTP handler that starts an export, the render    *)
(* worker, and the render pipeline (render-service) with the files it      *)
(* creates and deletes.                                                    *)
(*                                                                         *)
(* Times are integers in tenths of a second.  A failing media command is   *)
(* modelled as failing before it writes its output file.                   *)
(***************************************************************************)
EXTENDS Integers, Sequences, FiniteSets, TLC

\* ---------------------------------------------------------------- bounds
MaxExports == 2        \* Export records ever created

\* ------------------------------------------------------------- constants
Projects == {"p1"}
Callers == {"c1", "c2"}

NoJob == 0
NoPath == <<"none", 0, 0, 0>>
NoErr == "none"
NoProject == [clips |-> <<>>, overlays |-> <<>>]

ClipLen == 20          \* timeline length of every clip of the graphs below
LongEnd == 60          \* end time of an overlay that outlasts the clips
PadTolerance == 1      \* 0.1 s, in tenths of a second
FreezeBelow == 1       \* speed 0.01, in hundredths

\* ------------------------------------------------------- the job store
VARIABLES exports, queue

\* prisma.export.findFirst({projectId, status in [QUEUED, RUNNING]}): the id
\* of the first matching record, NoJob when there is none.
FindFirstQueuedOnly(projectId) ==
    LET hits == {i \in 1..Len(exports) :
                    /\ exports[i].projectId = projectId
                    /\ exports[i].status = "QUEUED"}
    IN  IF hits = {} THEN NoJob ELSE CHOOSE i \in hits : \A k \in hits : i <= k

FindFirstInFlight(projectId) ==
    LET hits == {i \in 1..Len(exports) :
                    /\ exports[i].projectId = projectId
                    /\ exports[i].status \in {"QUEUED", "RUNNING"}}
    IN  IF hits = {} THEN NoJob ELSE CHOOSE i \in hits : \A k \in hits : i <= k

NewExport(projectId) ==
    [projectId |-> projectId, status |-> "QUEUED", progress |-> 0,
     outputPath |-> NoPath, errorMessage |-> NoErr]

\* updateExportProgress(exportId, progress, status?): status "" is "not given".
UpdateExportProgress(exps, exportId, progress, status) ==
    [exps EXCEPT ![exportId] =
        [@ EXCEPT !.progress = progress,
                  !.status = IF status # "" THEN status ELSE @]]

CompleteExportKeepProgress(exps, exportId, outputPath) ==
    [exps EXCEPT ![exportId] =
        [@ EXCEPT !.status = "COMPLETE", !.outputPath = outputPath]]

CompleteExport(exps, exportId, outputPath) ==
    [exps EXCEPT ![exportId] =
        [@ EXCEPT !.status = "COMPLETE", !.progress = 100,
                  !.outputPath = outputPath]]

FailExportResetProgress(exps, exportId, errorMessage) ==
    [exps EXCEPT ![exportId] =
        [@ EXCEPT !.status = "FAILED", !.progress = 0,
                  !.errorMessage = errorMessage]]

FailExport(exps, exportId, errorMessage) ==
    [exps EXCEPT ![exportId] =
        [@ EXCEPT !.status = "FAILED", !.errorMessage = errorMessage]]

\* ------------------------------------------------------------ the disk
\* A file name is <<kind, job, a, b>>; uuid names never collide, and neither
\* do these.  disk maps each existing file to its content.
VARIABLES disk

VideoAsset == <<"asset", 0, 1, 0>>
AudioAsset == <<"asset", 0, 2, 0>>
ImageAsset == <<"asset", 0, 3, 0>>
MissingAsset == <<"asset", 0, 9, 0>>     \* referenced, but not on disk

ExportPath(job) == <<"export", job, 0, 0>>
ClipPath(job, cno) == <<"clip", job, cno, 0>>
SegPath(job, cno, i) == <<"seg", job, cno, i>>
FramePath(job, cno, i) == <<"frame", job, cno, i>>
ListPath(job, cno) == <<"concat", job, cno, 0>>
TrackPath(job, base) == <<"track", job, base, 0>>
PaddedPath(job) == <<"padded", job, 0, 0>>
CompositePath(job) == <<"composite", job, 0, 0>>
TextPath(job) == <<"text_overlay", job, 0, 0>>
ImgPath(job, i) == <<"img_overlay", job, i, 0>>
AudioPath(job) == <<"with_audio", job, 0, 0>>

Exists(d, f) == f \in DOMAIN d
Put(d, f, c) == [x \in (DOMAIN d) \cup {f} |-> IF x = f THEN c ELSE d[x]]
Unlink(d, f) == [x \in (DOMAIN d) \ {f} |-> d[x]]

RECURSIVE UnlinkAll(_, _, _)
\* files.forEach(f => { if (existsSync(f) && f !== keep) unlinkSync(f) })
UnlinkAll(d, files, keep) ==
    IF files = <<>> THEN d
    ELSE LET f == Head(files)
         IN  UnlinkAll(IF Exists(d, f) /\ f # keep THEN Unlink(d, f) ELSE d,
                       Tail(files), keep)

Media(layers, dur) == [layers |-> layers, dur |-> dur]

RECURSIVE JoinMedia(_, _)
JoinMedia(d, files) ==
    IF files = <<>> THEN Media(<<>>, 0)
    ELSE LET r == JoinMedia(d, Tail(files))
         IN  Media(d[Head(files)].layers \o r.layers, d[Head(files)].dur + r.dur)

\* ------------------------------------------------- rendering one clip
NoFail == [at |-> 0, how |-> "none"]
Ok(d) == [disk |-> d, err |-> NoErr]
Failed(d, msg) == [disk |-> d, err |-> msg]

\* The list as the caller gave it.
Unsorted(kfs) == kfs

RECURSIVE InsertByTime(_, _)
InsertByTime(s, k) ==
    IF s = <<>> THEN <<k>>
    ELSE IF k.time < Head(s).time THEN <<k>> \o s
    ELSE <<Head(s)>> \o InsertByTime(Tail(s), k)

RECURSIVE SortByTime(_)
\* [...keyframes].sort((a, b) => a.time - b.time), a stable sort
SortByTime(kfs) ==
    IF kfs = <<>> THEN <<>>
    ELSE InsertByTime(SortByTime(SubSeq(kfs, 1, Len(kfs) - 1)), kfs[Len(kfs)])

\* The segments renderSegmentedClip renders: one per keyframe, up to the next
\* keyframe or the clip's end, those of duration <= 0 skipped.
Segments(clip) ==
    LET sorted == SortByTime(clip.speedKeyframes)
        clipDuration == clip.endTime - clip.startTime
        seg(i) == [speed |-> sorted[i].speed,
                   start |-> sorted[i].time,
                   duration |-> (IF i < Len(sorted) THEN sorted[i + 1].time
                                 ELSE clipDuration) - sorted[i].time]
    IN  SelectSeq([i \in 1..Len(sorted) |-> seg(i)], LAMBDA g : g.duration > 0)

\* ffmpeg(sourcePath).setStartTime(trimStart).setDuration(duration)
RenderSimpleClip(d, clip, outputPath, fail) ==
    IF fail \/ ~Exists(d, clip.asset) THEN Failed(d, "ffmpeg:clip")
    ELSE Ok(Put(d, outputPath, Media(<<clip.track>>, clip.endTime - clip.startTime)))

\* Two commands: extract one frame to framePath, then loop it into outputPath;
\* framePath is deleted only when the second command ends without error.
RenderFreezeFrame(d, sourcePath, seg, outputPath, framePath, how) ==
    IF how = "cmd" \/ ~Exists(d, sourcePath) THEN Failed(d, "ffmpeg:frame")
    ELSE LET d1 == Put(d, framePath, Media(<<"frame">>, 0))
         IN  IF how = "loop" THEN Failed(d1, "ffmpeg:freeze")
             ELSE Ok(Unlink(Put(d1, outputPath, Media(<<"hold">>, seg.duration)),
                            framePath))

RenderSegment(d, sourcePath, seg, outputPath, framePath, how) ==
    IF seg.speed < FreezeBelow
    THEN RenderFreezeFrame(d, sourcePath, seg, outputPath, framePath, how)
    ELSE IF how # "none" \/ ~Exists(d, sourcePath) THEN Failed(d, "ffmpeg:segment")
    ELSE Ok(Put(d, outputPath, Media(<<"seg">>, seg.duration)))

\* Writes the list file, runs the concat command, deletes the list file on
\* 'end' and on 'error'.  An empty list or a missing input makes it fail.
ConcatenateFiles(d, files, outputPath, listFile, fail) ==
    LET d1 == Put(d, listFile, Media(<<"list">>, 0))
    IN  IF fail \/ files = <<>> \/ \E i \in 1..Len(files) : ~Exists(d, files[i])
        THEN Failed(Unlink(d1, listFile), "ffmpeg:concat")
        ELSE Ok(Unlink(Put(d1, outputPath, JoinMedia(d, files)), listFile))

RECURSIVE SegLoop(_, _, _, _, _, _, _)
\* for (i ...) { segments.push(segPath); await renderSegment(...) }
\* r is the outcome of the iterations before i; a rejected await ends the loop.
SegLoop(r, clip, segs, i, job, cno, fp) ==
    IF r.err # NoErr \/ i > Len(segs) THEN r
    ELSE SegLoop(RenderSegment(r.disk, clip.asset, segs[i], SegPath(job, cno, i),
                               FramePath(job, cno, i),
                               IF fp.at = i THEN fp.how ELSE "none"),
                 clip, segs, i + 1, job, cno, fp)

\* The rest of renderSegmentedClip's try block, the loop having ended as l.
SegmentedClipTry(l, segments, outputPath, job, cno, fp) ==
    IF l.err # NoErr THEN l
    ELSE IF Len(segments) = 1
    THEN Ok(Unlink(Put(l.disk, outputPath, l.disk[segments[1]]),
                   segments[1]))                                \* renameSync
    ELSE ConcatenateFiles(l.disk, segments, outputPath,
                          ListPath(job, cno), fp.how = "concat")

\* finally { segments.forEach(seg => unlink if it exists and is not outputPath) }
SegmentedClipFinally(r, segments, outputPath) ==
    [disk |-> UnlinkAll(r.disk, segments, outputPath), err |-> r.err]

RenderSegmentedClip(d, clip, outputPath, job, cno, fp) ==
    LET segs == Segments(clip)
        segments == [i \in 1..Len(segs) |-> SegPath(job, cno, i)]
    IN  SegmentedClipFinally(
            SegmentedClipTry(SegLoop(Ok(d), clip, segs, 1, job, cno, fp),
                             segments, outputPath, job, cno, fp),
            segments, outputPath)

RenderClipWithSpeedRamp(d, clip, job, cno, fp) ==
    IF clip.speedKeyframes = <<>>
    THEN RenderSimpleClip(d, clip, ClipPath(job, cno), fp.how # "none")
    ELSE RenderSegmentedClip(d, clip, ClipPath(job, cno), job, cno, fp)

\* The ways a command of one clip's render can fail.
ClipFailPoints(clip) ==
    IF clip.speedKeyframes = <<>> THEN {[at |-> 1, how |-> "cmd"]}
    ELSE LET segs == Segments(clip)
         IN  {[at |-> i, how |-> "cmd"] : i \in 1..Len(segs)}
             \cup {[at |-> i, how |-> "loop"] :
                     i \in {k \in 1..Len(segs) : segs[k].speed < FreezeBelow}}
             \cup (IF Len(segs) # 1 THEN {[at |-> 0, how |-> "concat"]} ELSE {})

\* ----------------------------------------------- rendering one track
\* rendered = await renderClipWithSpeedRamp(clip) ended as r:
\* renderedClips.push(rendered); tempFiles.push(rendered), unless it rejected.
PushRendered(r, tf, rendered) ==
    [disk |-> r.disk, err |-> r.err,
     tempFiles |-> IF r.err = NoErr THEN Append(tf, rendered) ELSE tf]

RECURSIVE ClipLoop(_, _, _, _, _, _)
\* for (const clip of clips) { ... }: l is the outcome of the iterations
\* before i; a rejected await ends the loop.
ClipLoop(l, clips, i, job, base, choice) ==
    IF l.err # NoErr \/ i > Len(clips) THEN l
    ELSE ClipLoop(PushRendered(
                      RenderClipWithSpeedRamp(l.disk, clips[i], job, base + i,
                                              IF choice.clip = i THEN choice.fp
                                              ELSE NoFail),
                      l.tempFiles, ClipPath(job, base + i)),
                  clips, i + 1, job, base, choice)

\* await concatenateFiles(renderedClips, output) ended as c; return output
TrackOutput(c, tf, output) ==
    [disk |-> c.disk, tempFiles |-> tf, err |-> c.err,
     out |-> IF c.err = NoErr THEN output ELSE NoPath]

\* renderTrackClips after its loop, which ended as l.
JoinRendered(l, renderedClips, job, base, fail) ==
    IF l.err # NoErr THEN TrackOutput(l, l.tempFiles, NoPath)
    ELSE IF Len(renderedClips) = 1
    THEN TrackOutput(l, l.tempFiles, renderedClips[1])
    ELSE TrackOutput(ConcatenateFiles(l.disk, renderedClips, TrackPath(job, base),
                                      ListPath(job, base), fail),
                     l.tempFiles, TrackPath(job, base))

RenderTrackClips(d, clips, tf, job, base, choice) ==
    JoinRendered(ClipLoop([disk |-> d, tempFiles |-> tf, err |-> NoErr],
                          clips, 1, job, base, choice),
                 [i \in 1..Len(clips) |-> ClipPath(job, base + i)],
                 job, base, choice.clip = Len(clips) + 1)

\* The ways rendering a track can go: no failure, a failure inside clip i, or a
\* failure of the track's concat command.
TrackChoices(clips) ==
    {[clip |-> 0, fp |-> NoFail]}
    \cup UNION {{[clip |-> i, fp |-> f] : f \in ClipFailPoints(clips[i])} :
                  i \in 1..Len(clips)}
    \cup (IF Len(clips) > 1 THEN {[clip |-> Len(clips) + 1, fp |-> NoFail]} ELSE {})

\* -------------------------------------------------- the later stages
\* ffprobe error -> reject; nothing to pad -> the input; encode error -> the
\* input (fallback); else the padded file.
PadVideoToLength(d, videoPath, targetDuration, outputPath, outcome) ==
    IF outcome = "probe" THEN [disk |-> d, err |-> "ffprobe:pad", out |-> NoPath]
    ELSE LET padDuration == targetDuration - d[videoPath].dur
         IN  IF padDuration <= 0 \/ outcome = "encode"
             THEN [disk |-> d, err |-> NoErr, out |-> videoPath]
             ELSE [disk |-> Put(d, outputPath,
                                Media(d[videoPath].layers \o <<"pad">>, targetDuration)),
                   err |-> NoErr, out |-> outputPath]

\* On 'error' the base video is copied to outputPath and the promise resolves.
CompositeTrackB(d, baseVideo, trackBVideo, outputPath, fail) ==
    IF fail THEN Put(d, outputPath, d[baseVideo])
    ELSE Put(d, outputPath, Media(d[baseVideo].layers \o <<"pip">>, d[baseVideo].dur))

ApplyTextOverlays(d, videoPath, outputPath, fail) ==
    IF fail THEN [disk |-> d, err |-> "ffmpeg:text", out |-> NoPath]
    ELSE [disk |-> Put(d, outputPath,
                       Media(d[videoPath].layers \o <<"text">>, d[videoPath].dur)),
          err |-> NoErr, out |-> outputPath]

RECURSIVE ImageLoop(_, _, _, _, _, _)
\* for (const overlay of overlays) { if (!existsSync(imagePath)) continue;
\*    ... one overlay command ...; currentVideo = outputPath }
ImageLoop(d, currentVideo, overlays, i, job, failAt) ==
    IF i > Len(overlays) THEN [disk |-> d, err |-> NoErr, out |-> currentVideo]
    ELSE IF ~Exists(d, overlays[i].content)
    THEN ImageLoop(d, currentVideo, overlays, i + 1, job, failAt)
    ELSE IF failAt = i THEN [disk |-> d, err |-> "ffmpeg:image", out |-> NoPath]
    ELSE ImageLoop(Put(d, ImgPath(job, i),
                       Media(d[currentVideo].layers \o <<"image">>,
                             d[currentVideo].dur)),
                   ImgPath(job, i), overlays, i + 1, job, failAt)

ApplyImageOverlays(d, videoPath, overlays, job, failAt) ==
    ImageLoop(d, videoPath, overlays, 1, job, failAt)

\* A missing audio file returns the input; a failing mix command copies the
\* input to outputPath and resolves.
MixAudioTrack(d, videoPath, audioClips, outputPath, fail) ==
    IF ~Exists(d, audioClips[1].asset) THEN [disk |-> d, out |-> videoPath]
    ELSE IF fail THEN [disk |-> Put(d, outputPath, d[videoPath]), out |-> outputPath]
    ELSE [disk |-> Put(d, outputPath,
                       Media(d[videoPath].layers \o <<"audio">>, d[videoPath].dur)),
          out |-> outputPath]

\* The progress value renderProject and the worker write at each point.
CheckpointSwapped(stage) ==
    CASE stage = "start" -> 0  [] stage = "try" -> 5   [] stage = "trackA" -> 10
      [] stage = "trackB" -> 50 [] stage = "text" -> 30 [] stage = "image" -> 70
      [] stage = "audio" -> 85 [] stage = "final" -> 95

Checkpoint(stage) ==
    CASE stage = "start" -> 0  [] stage = "try" -> 5   [] stage = "trackA" -> 10
      [] stage = "trackB" -> 30 [] stage = "text" -> 50 [] stage = "image" -> 70
      [] stage = "audio" -> 85 [] stage = "final" -> 95

\* ------------------------------------------------- project graphs
\* What prisma.project.findUnique can return for a project: clips ordered by
\* startTime, overlays ordered by startTime.
Clip(track, slot, kfs, asset) ==
    [track |-> track, startTime |-> (slot - 1) * ClipLen, endTime |-> slot * ClipLen,
     trimStart |-> 0, speedKeyframes |-> kfs, asset |-> asset]

Overlay(type, endTime, content) ==
    [type |-> type, startTime |-> 0, endTime |-> endTime, content |-> content]

Ramp == <<[time |-> 10, speed |-> 200], [time |-> 0, speed |-> 100]>>
Hold == <<[time |-> 0, speed |-> 0]>>

SimpleClip(track, slot) == Clip(track, slot, <<>>, VideoAsset)

\* The primary track alone: empty, one clip of each kind, two clips.
TrackAChoices ==
    {<<>>,
     <<SimpleClip("video_a", 1)>>,
     <<Clip("video_a", 1, Hold, VideoAsset)>>,
     <<Clip("video_a", 1, Ramp, VideoAsset)>>,
     <<Clip("video_a", 1, <<>>, MissingAsset)>>,
     <<SimpleClip("video_a", 1), Clip("video_a", 2, Ramp, VideoAsset)>>,
     <<Clip("video_a", 1, Hold, VideoAsset), SimpleClip("video_a", 2)>>}

\* What a project adds to its primary track: clips of the other tracks ...
ExtraClips ==
    {<<Clip("video_b", 1, <<>>, a)>> : a \in {VideoAsset, MissingAsset}}
    \cup {<<Clip("video_b", 1, Hold, VideoAsset)>>}
    \cup {<<Clip("audio", 1, <<>>, a)>> : a \in {AudioAsset, MissingAsset}}

\* ... or overlays: a text overlay, one or two image overlays.
ExtraOverlays ==
    {<<Overlay("text", e, NoPath)>> : e \in {ClipLen, LongEnd}}
    \cup {<<Overlay("image", ClipLen, a)>> : a \in {ImageAsset, MissingAsset}}
    \cup {<<Overlay("image", ClipLen, a), Overlay("image", LongEnd, ImageAsset)>> :
            a \in {ImageAsset, MissingAsset}}

Graph(clips, overlays) == [clips |-> clips, overlays |-> overlays]

\* The timelines exports run on.  Clips are in startTime order, as findUnique
\* returns them: a track alone, one clip with one addition, an addition
\* without a primary track, and a project that has everything.
ProjectGraphs ==
    {Graph(a, <<>>) : a \in TrackAChoices}
    \cup {Graph(<<SimpleClip("video_a", 1)>> \o x, <<>>) : x \in ExtraClips}
    \cup {Graph(<<SimpleClip("video_a", 1)>>, o) : o \in ExtraOverlays}
    \cup {Graph(x, <<>>) : x \in ExtraClips}
    \cup {Graph(<<Clip("video_a", 1, Hold, VideoAsset), SimpleClip("video_b", 1),
                  Clip("audio", 1, <<>>, AudioAsset), SimpleClip("video_a", 2)>>,
                <<Overlay("text", LongEnd, NoPath),
                  Overlay("image", ClipLen, ImageAsset),
                  Overlay("image", LongEnd, ImageAsset)>>)}

OnTrack(clips, track) == SelectSeq(clips, LAMBDA c : c.track = track)
OfType(overlays, type) == SelectSeq(overlays, LAMBDA o : o.type = type)

RECURSIVE MaxOf(_)
MaxOf(S) == IF S = {} THEN 0
            ELSE LET x == CHOOSE y \in S : TRUE
                     m == MaxOf(S \ {x})
                 IN  IF x > m THEN x ELSE m

\* Math.max(...clips.map(c => c.endTime), ...overlays.map(o => o.endTime))
ProjectDuration(project) ==
    MaxOf({project.clips[i].endTime : i \in 1..Len(project.clips)}
          \cup {project.overlays[i].endTime : i \in 1..Len(project.overlays)})

\* ------------------------------------------------------------- state
\* cpc, cproj, crec: each caller's position in POST /exports, its projectId
\* and the export it is about to answer with.
\* wpc, wjob: the worker's position and the queue entry it processes.
\* project, outputPath, tempFiles, baseVideo, werr: renderProject's locals
\* (outputPath is ctx.outputPath, the value it returns), and the error it
\* threw.  wstage and checkpoint record where the error was thrown and the
\* last progress value the worker wrote.
\* graphs: the timeline stored for each project (it is not edited while
\* exports run).
VARIABLES graphs, cpc, cproj, crec, wpc, wjob, project, outputPath, tempFiles,
          baseVideo, werr, wstage, checkpoint

\* The calls into the time engine, the render planner and the clip routes:
\* keyframes, rampCall: the keyframe list evaluateSpeedRamp (or
\* interpolateKeyframes) is called with and its last call; plan: what renderSegmentedClip last planned; tstate: what
\* evaluateTimeline last returned; eres: the last answer of a clip route.
VARIABLES keyframes, rampCall, plan, tstate, eres

vars == <<exports, queue, disk, graphs, cpc, cproj, crec, wpc, wjob, project,
          outputPath, tempFiles, baseVideo, werr, wstage, checkpoint,
          keyframes, rampCall, plan, tstate, eres>>

engineVars == <<keyframes, rampCall, plan, tstate, eres>>

callerVars == <<graphs, cpc, cproj, crec>>
renderVars == <<project, outputPath, tempFiles, baseVideo, werr, wstage>>
workerVars == <<wpc, wjob, project, outputPath, tempFiles, baseVideo, werr, wstage,
                checkpoint>>

\* No request has been made and the worker has taken nothing.
Idle ==
    /\ exports = <<>>
    /\ queue = <<>>
    /\ disk = [f \in {VideoAsset, AudioAsset, ImageAsset} |-> Media(<<"src">>, 100)]
    /\ cpc = [c \in Callers |-> "idle"]
    /\ cproj = [c \in Callers |-> ""]
    /\ crec = [c \in Callers |-> NoJob]
    /\ wpc = "idle"
    /\ wjob = [exportId |-> NoJob, projectId |-> ""]
    /\ project = NoProject
    /\ outputPath = NoPath
    /\ tempFiles = <<>>
    /\ baseVideo = NoPath
    /\ werr = NoErr
    /\ wstage = ""
    /\ checkpoint = 0

NoCall == <<>>

Init ==
    /\ Idle
    /\ graphs \in [Projects -> ProjectGraphs]
    /\ keyframes = <<>>
    /\ rampCall = NoCall
    /\ plan = NoCall
    /\ tstate = NoCall
    /\ eres = NoCall

\* ------------------------------------------- POST /exports (a caller)
\* router.post('/') with no projectId: 400, nothing else happens.
PostMissingProjectId(c) ==
    /\ cpc[c] = "idle"
    /\ cpc' = [cpc EXCEPT ![c] = "respond"]
    /\ UNCHANGED <<graphs, cproj, crec, exports, queue, disk, workerVars, engineVars>>

\* createExportJob up to the end of its findFirst.
CreateExportJobFind(c, projectId) ==
    /\ cpc[c] = "idle"
    /\ LET existing == FindFirstInFlight(projectId)
       IN  /\ cproj' = [cproj EXCEPT ![c] = projectId]
           /\ crec' = [crec EXCEPT ![c] = existing]
           /\ cpc' = [cpc EXCEPT ![c] = IF existing # NoJob THEN "respond" ELSE "create"]
    /\ UNCHANGED <<graphs, exports, queue, disk, workerVars, engineVars>>

\* prisma.export.create
CreateExportJobCreate(c) ==
    /\ cpc[c] = "create"
    /\ Len(exports) < MaxExports
    /\ exports' = Append(exports, NewExport(cproj[c]))
    /\ crec' = [crec EXCEPT ![c] = Len(exports) + 1]
    /\ cpc' = [cpc EXCEPT ![c] = "enqueue"]
    /\ UNCHANGED <<graphs, cproj, queue, disk, workerVars, engineVars>>

\* renderQueue.add
CreateExportJobEnqueue(c) ==
    /\ cpc[c] = "enqueue"
    /\ queue' = Append(queue, [exportId |-> crec[c], projectId |-> cproj[c]])
    /\ cpc' = [cpc EXCEPT ![c] = "respond"]
    /\ UNCHANGED <<graphs, cproj, crec, exports, disk, workerVars, engineVars>>

\* res.json(exportJob)
Respond(c) ==
    /\ cpc[c] = "respond"
    /\ cpc' = [cpc EXCEPT ![c] = "idle"]
    /\ cproj' = [cproj EXCEPT ![c] = ""]
    /\ crec' = [crec EXCEPT ![c] = NoJob]
    /\ UNCHANGED <<graphs, exports, queue, disk, workerVars, engineVars>>

\* --------------------------------------------------------- the worker
WriteProgress(stage, status) ==
    /\ exports' = UpdateExportProgress(exports, wjob.exportId, Checkpoint(stage), status)
    /\ checkpoint' = Checkpoint(stage)

Throw(msg, stage) ==
    /\ werr' = msg
    /\ wstage' = stage
    /\ wpc' = "finally"

\* The worker (concurrency 1) takes the next queue entry.
WorkerTake ==
    /\ wpc = "idle"
    /\ queue # <<>>
    /\ wjob' = Head(queue)
    /\ queue' = Tail(queue)
    /\ wpc' = "start"
    /\ UNCHANGED <<exports, disk, callerVars, engineVars, renderVars, checkpoint>>

\* updateExportProgress(exportId, 0, 'RUNNING')
WorkerStart ==
    /\ wpc = "start"
    /\ WriteProgress("start", "RUNNING")
    /\ wpc' = "load"
    /\ UNCHANGED <<queue, disk, callerVars, engineVars, wjob, renderVars>>

\* renderProject: findUnique.  'Project not found' needs the project deleted,
\* which deletes its Export rows too (ON DELETE CASCADE); projects are not
\* deleted here.
RenderLoad ==
    /\ wpc = "load"
    /\ project' = graphs[wjob.projectId]
    /\ outputPath' = ExportPath(wjob.exportId)
    /\ tempFiles' = <<>>
    /\ wpc' = "try"
    /\ UNCHANGED <<exports, queue, disk, callerVars, engineVars, wjob, baseVideo,
                   werr, wstage,
                   checkpoint>>

\* updateExportProgress(exportId, 5, 'RUNNING'); the clips.length check
RenderTry ==
    /\ wpc = "try"
    /\ WriteProgress("try", "RUNNING")
    /\ IF Len(project.clips) = 0
       THEN Throw("No clips to render", "clips")
       ELSE wpc' = "trackA" /\ UNCHANGED <<werr, wstage>>
    /\ UNCHANGED <<queue, disk, callerVars, engineVars, wjob, project, outputPath,
                   tempFiles, baseVideo>>

\* Step 1: updateExportProgress(exportId, 10); renderTrackClips(trackA)
RenderTrackA ==
    /\ wpc = "trackA"
    /\ WriteProgress("trackA", "")
    /\ LET trackA == OnTrack(project.clips, "video_a")
       IN  IF trackA = <<>>
           THEN /\ Throw("No video clips on Track A", "trackA")
                /\ UNCHANGED <<disk, tempFiles, baseVideo>>
           ELSE \E ch \in TrackChoices(trackA) :
                   LET r == RenderTrackClips(disk, trackA, tempFiles, wjob.exportId, 0, ch)
                   IN  /\ disk' = r.disk
                       /\ IF r.err # NoErr
                          THEN /\ Throw(r.err, "trackA")
                               /\ tempFiles' = r.tempFiles
                               /\ UNCHANGED baseVideo
                          ELSE /\ tempFiles' = Append(r.tempFiles, r.out)
                               /\ baseVideo' = r.out
                               /\ wpc' = "pad"
                               /\ UNCHANGED <<werr, wstage>>
    /\ UNCHANGED <<queue, callerVars, engineVars, wjob, project, outputPath>>

\* getVideoDuration (0 when the probe fails), then padVideoToLength when the
\* project outlasts the base by more than 0.1 s.
RenderPad ==
    /\ wpc = "pad"
    /\ \E probed \in BOOLEAN, outcome \in {"ok", "probe", "encode"} :
          LET projectDuration == ProjectDuration(project)
              baseDuration == IF probed THEN disk[baseVideo].dur ELSE 0
          IN  IF projectDuration > baseDuration + PadTolerance
              THEN LET r == PadVideoToLength(disk, baseVideo, projectDuration,
                                             PaddedPath(wjob.exportId), outcome)
                   IN  /\ disk' = r.disk
                       /\ IF r.err # NoErr
                          THEN Throw(r.err, "pad") /\ UNCHANGED <<tempFiles, baseVideo>>
                          ELSE /\ tempFiles' = Append(tempFiles, r.out)
                               /\ baseVideo' = r.out
                               /\ wpc' = "trackB"
                               /\ UNCHANGED <<werr, wstage>>
              ELSE /\ wpc' = "trackB"
                   /\ UNCHANGED <<disk, tempFiles, baseVideo, werr, wstage>>
    /\ UNCHANGED <<exports, queue, callerVars, engineVars, wjob, project, outputPath,
                   checkpoint>>

\* Step 2: updateExportProgress(exportId, 30); Track B render and composite
RenderTrackB ==
    /\ wpc = "trackB"
    /\ WriteProgress("trackB", "")
    /\ LET trackB == OnTrack(project.clips, "video_b")
       IN  IF trackB = <<>>
           THEN wpc' = "text" /\ UNCHANGED <<disk, tempFiles, baseVideo, werr, wstage>>
           ELSE \E ch \in TrackChoices(trackB), fail \in BOOLEAN :
                   LET r == RenderTrackClips(disk, trackB, tempFiles, wjob.exportId, 10, ch)
                       composited == CompositePath(wjob.exportId)
                   IN  IF r.err # NoErr
                       THEN /\ Throw(r.err, "trackB")
                            /\ disk' = r.disk
                            /\ tempFiles' = r.tempFiles
                            /\ UNCHANGED baseVideo
                       ELSE /\ disk' = CompositeTrackB(r.disk, baseVideo, r.out,
                                                       composited, fail)
                            /\ tempFiles' = r.tempFiles \o <<r.out, composited>>
                            /\ baseVideo' = composited
                            /\ wpc' = "text"
                            /\ UNCHANGED <<werr, wstage>>
    /\ UNCHANGED <<queue, callerVars, engineVars, wjob, project, outputPath>>

\* Step 3: updateExportProgress(exportId, 50); applyTextOverlays
RenderText ==
    /\ wpc = "text"
    /\ WriteProgress("text", "")
    /\ IF OfType(project.overlays, "text") = <<>>
       THEN wpc' = "image" /\ UNCHANGED <<disk, tempFiles, baseVideo, werr, wstage>>
       ELSE \E fail \in BOOLEAN :
               LET r == ApplyTextOverlays(disk, baseVideo, TextPath(wjob.exportId), fail)
               IN  /\ disk' = r.disk
                   /\ IF r.err # NoErr
                      THEN Throw(r.err, "text") /\ UNCHANGED <<tempFiles, baseVideo>>
                      ELSE /\ tempFiles' = Append(tempFiles, r.out)
                           /\ baseVideo' = r.out
                           /\ wpc' = "image"
                           /\ UNCHANGED <<werr, wstage>>
    /\ UNCHANGED <<queue, callerVars, engineVars, wjob, project, outputPath>>

\* Step 4: updateExportProgress(exportId, 70); applyImageOverlays
RenderImage ==
    /\ wpc = "image"
    /\ WriteProgress("image", "")
    /\ LET imageOverlays == OfType(project.overlays, "image")
       IN  IF imageOverlays = <<>>
           THEN wpc' = "audio" /\ UNCHANGED <<disk, tempFiles, baseVideo, werr, wstage>>
           ELSE \E failAt \in 0..Len(imageOverlays) :
                   LET r == ApplyImageOverlays(disk, baseVideo, imageOverlays,
                                               wjob.exportId, failAt)
                   IN  /\ disk' = r.disk
                       /\ IF r.err # NoErr
                          THEN Throw(r.err, "image") /\ UNCHANGED <<tempFiles, baseVideo>>
                          ELSE /\ tempFiles' = Append(tempFiles, r.out)
                               /\ baseVideo' = r.out
                               /\ wpc' = "audio"
                               /\ UNCHANGED <<werr, wstage>>
    /\ UNCHANGED <<queue, callerVars, engineVars, wjob, project, outputPath>>

\* Step 5: updateExportProgress(exportId, 85); mixAudioTrack
RenderAudio ==
    /\ wpc = "audio"
    /\ WriteProgress("audio", "")
    /\ LET audioClips == OnTrack(project.clips, "audio")
       IN  IF audioClips = <<>>
           THEN UNCHANGED <<disk, tempFiles, baseVideo>>
           ELSE \E fail \in BOOLEAN :
                   LET r == MixAudioTrack(disk, baseVideo, audioClips,
                                          AudioPath(wjob.exportId), fail)
                   IN  /\ disk' = r.disk
                       /\ tempFiles' = Append(tempFiles, r.out)
                       /\ baseVideo' = r.out
    /\ wpc' = "final"
    /\ UNCHANGED <<queue, callerVars, engineVars, wjob, project, outputPath, werr, wstage>>

\* updateExportProgress(exportId, 95); fs.copyFileSync(baseVideo, ctx.outputPath)
RenderFinal ==
    /\ wpc = "final"
    /\ WriteProgress("final", "")
    /\ \E fail \in BOOLEAN :
          IF fail
          THEN Throw("copy failed", "final") /\ UNCHANGED disk
          ELSE /\ disk' = Put(disk, outputPath, disk[baseVideo])
               /\ wpc' = "finally"
               /\ UNCHANGED <<werr, wstage>>
    /\ UNCHANGED <<queue, callerVars, engineVars, wjob, project, outputPath,
                   tempFiles, baseVideo>>

\* finally: every tempFiles entry that exists and is not the output is deleted.
RenderFinally ==
    /\ wpc = "finally"
    /\ disk' = UnlinkAll(disk, tempFiles, outputPath)
    /\ wpc' = IF werr = NoErr THEN "complete" ELSE "catch"
    /\ UNCHANGED <<exports, queue, callerVars, engineVars, wjob, renderVars, checkpoint>>

\* completeExport(exportId, outputPath)
WorkerComplete ==
    /\ wpc = "complete"
    /\ exports' = CompleteExport(exports, wjob.exportId, outputPath)
    /\ wpc' = "settled"
    /\ UNCHANGED <<queue, disk, callerVars, engineVars, wjob, renderVars, checkpoint>>

\* A failed job that is queued again for another attempt.
WorkerFailRetry ==
    /\ wpc = "catch"
    /\ exports' = FailExport(exports, wjob.exportId, werr)
    /\ queue' = Append(queue, wjob)
    /\ wpc' = "settled"
    /\ UNCHANGED <<disk, callerVars, engineVars, wjob, renderVars, checkpoint>>

\* catch: failExport(exportId, error.message); throw error
WorkerFail ==
    /\ wpc = "catch"
    /\ exports' = FailExport(exports, wjob.exportId, werr)
    /\ wpc' = "settled"
    /\ UNCHANGED <<queue, disk, callerVars, engineVars, wjob, renderVars, checkpoint>>

\* The job handler has returned or thrown; the worker is free again.
WorkerDone ==
    /\ wpc = "settled"
    /\ wpc' = "idle"
    /\ wjob' = [exportId |-> NoJob, projectId |-> ""]
    /\ project' = NoProject
    /\ outputPath' = NoPath
    /\ tempFiles' = <<>>
    /\ baseVideo' = NoPath
    /\ werr' = NoErr
    /\ wstage' = ""
    /\ checkpoint' = 0
    /\ UNCHANGED <<exports, queue, disk, callerVars, engineVars>>

Next ==
    \/ \E c \in Callers : PostMissingProjectId(c)
    \/ \E c \in Callers, p \in Projects : CreateExportJobFind(c, p)
    \/ \E c \in Callers : CreateExportJobCreate(c)
    \/ \E c \in Callers : CreateExportJobEnqueue(c)
    \/ \E c \in Callers : Respond(c)
    \/ WorkerTake
    \/ WorkerStart
    \/ RenderLoad
    \/ RenderTry
    \/ RenderTrackA
    \/ RenderPad
    \/ RenderTrackB
    \/ RenderText
    \/ RenderImage
    \/ RenderAudio
    \/ RenderFinal
    \/ RenderFinally
    \/ WorkerComplete
    \/ WorkerFail
    \/ WorkerDone

Spec == Init /\ [][Next]_vars

\* Requests that arrive one after the other: one client, which sends its next
\* request after the answer to the last one.  The worker runs as before.
SeqCaller == CHOOSE c \in Callers : TRUE

NextSeq ==
    \/ PostMissingProjectId(SeqCaller)
    \/ \E p \in Projects : CreateExportJobFind(SeqCaller, p)
    \/ CreateExportJobCreate(SeqCaller)
    \/ CreateExportJobEnqueue(SeqCaller)
    \/ Respond(SeqCaller)
    \/ WorkerTake
    \/ WorkerStart
    \/ RenderLoad
    \/ RenderTry
    \/ RenderTrackA
    \/ RenderPad
    \/ RenderTrackB
    \/ RenderText
    \/ RenderImage
    \/ RenderAudio
    \/ RenderFinal
    \/ RenderFinally
    \/ WorkerComplete
    \/ WorkerFail
    \/ WorkerDone

SeqSpec == Init /\ [][NextSeq]_vars

\* =============================================================== claims
InFlight(p) ==
    {i \in 1..Len(exports) :
        exports[i].projectId = p /\ exports[i].status \in {"QUEUED", "RUNNING"}}

Terminal(status) == status \in {"COMPLETE", "FAILED"}

Job == wjob.exportId

\* C1: requests one after the other: a createExportJob(P) that finds a job of
\* P QUEUED or RUNNING answers with that job, adds no Export record and no
\* queue entry; one that finds none (every job of P is COMPLETE or FAILED)
\* creates one new record with a new id, QUEUED at progress 0, and enqueues
\* that id once.
C1_SequentialIdempotency ==
    [][\A c \in Callers :
        /\ (cpc[c] = "idle" /\ cpc'[c] # "idle" /\ cproj'[c] \in Projects) =>
              IF InFlight(cproj'[c]) # {}
              THEN /\ InFlight(cproj'[c]) = {crec'[c]}
                   /\ cpc'[c] = "respond"
                   /\ exports' = exports
                   /\ queue' = queue
              ELSE cpc'[c] = "create"
        /\ (cpc[c] = "create" /\ cpc'[c] # "create") =>
              /\ Len(exports') = Len(exports) + 1
              /\ SubSeq(exports', 1, Len(exports)) = exports
              /\ crec'[c] = Len(exports')
              /\ crec'[c] \notin 1..Len(exports)
              /\ exports'[crec'[c]].status = "QUEUED"
              /\ exports'[crec'[c]].progress = 0
              /\ exports'[crec'[c]].projectId = cproj[c]
              /\ InFlight(cproj[c]) = {}
        /\ (cpc[c] = "enqueue" /\ cpc'[c] # "enqueue") =>
              /\ queue' = Append(queue, [exportId |-> crec[c], projectId |-> cproj[c]])
              /\ \A i \in 1..Len(queue) : queue[i].exportId # crec[c]
              /\ exports' = exports
        /\ (cpc[c] = "respond" /\ cpc'[c] # "respond") =>
              exports' = exports /\ queue' = queue
    ]_vars

\* C1 witness: the first job is COMPLETE, a second one was created for the
\* same project and runs, and a later request is answered with the second.
C1_Witness ==
    /\ Len(exports) = 2
    /\ exports[1].status = "COMPLETE"
    /\ exports[2].status = "RUNNING"
    /\ exports[2].projectId = exports[1].projectId
    /\ \E c \in Callers : cpc[c] = "respond" /\ crec[c] = 2

\* C2: no two Export records of one project are QUEUED or RUNNING at once.
C2_AtMostOneInFlight ==
    \A p \in Projects : Cardinality(InFlight(p)) <= 1

\* C3: a job's status moves only QUEUED -> RUNNING -> COMPLETE or FAILED, and
\* once it is COMPLETE or FAILED no step changes its status or its progress.
C3_StatusOrder ==
    [][\A j \in 1..Len(exports) :
        /\ j <= Len(exports')
        /\ Terminal(exports[j].status) =>
              /\ exports'[j].status = exports[j].status
              /\ exports'[j].progress = exports[j].progress
        /\ exports'[j].status # exports[j].status =>
              <<exports[j].status, exports'[j].status>> \in
                  {<<"QUEUED", "RUNNING">>, <<"RUNNING", "COMPLETE">>,
                   <<"RUNNING", "FAILED">>}
    ]_vars

\* C3 witness: one job went to FAILED, a later one to COMPLETE, and the worker
\* has taken up nothing since.
C3_Witness ==
    /\ Len(exports) = 2
    /\ exports[1].status = "FAILED"
    /\ exports[2].status = "COMPLETE"
    /\ wpc = "idle"

\* C4: the progress of a job starts at 0 and never decreases, whether the job
\* succeeds or fails.
C4_ProgressMonotone ==
    [][/\ \A j \in 1..Len(exports) :
            j <= Len(exports') /\ exports'[j].progress >= exports[j].progress
       /\ \A j \in (Len(exports) + 1)..Len(exports') : exports'[j].progress = 0
    ]_vars

\* C4 witness: a job that failed part-way and a job that went through every
\* checkpoint.
C4_Witness ==
    /\ \E j \in 1..Len(exports) :
          /\ exports[j].status = "FAILED"
          /\ exports[j].progress > 0
          /\ exports[j].progress < 100
    /\ \E j \in 1..Len(exports) :
          exports[j].status = "COMPLETE" /\ exports[j].progress = 100

\* C5: when renderProject has returned or thrown, no file this job created is
\* left on disk except the export output.
C5_CleanupInvariant ==
    wpc \in {"complete", "catch"} =>
        \A f \in DOMAIN disk : f[2] = Job => f = outputPath

\* C6: after a successful renderProject the output file is the copy of the
\* last stage's artifact, and the job ends COMPLETE at progress 100 with
\* outputPath the path renderProject returned.
C6_SuccessCompletes ==
    /\ (wpc = "finally" /\ werr = NoErr) =>
          /\ Exists(disk, outputPath)
          /\ Exists(disk, baseVideo)
          /\ disk[outputPath] = disk[baseVideo]
    /\ (wpc = "settled" /\ werr = NoErr) =>
          /\ exports[Job].status = "COMPLETE"
          /\ exports[Job].progress = 100
          /\ exports[Job].outputPath = outputPath
          /\ outputPath # NoPath
          /\ Exists(disk, outputPath)

\* C6 witness: a render with all stages has succeeded and the job is settled.
C6_Witness ==
    /\ wpc = "settled"
    /\ werr = NoErr
    /\ exports[Job].status = "COMPLETE"
    /\ disk[outputPath].layers = <<"hold", "video_a", "pad", "pip", "text", "image",
                                   "image", "audio">>

\* C7: after renderProject threw, the job ends FAILED with the thrown
\* message, its progress is the last checkpoint written, and it has no
\* outputPath.
C7_FailureRecorded ==
    (wpc = "settled" /\ werr # NoErr) =>
        /\ exports[Job].status = "FAILED"
        /\ exports[Job].errorMessage = werr
        /\ exports[Job].progress = checkpoint
        /\ exports[Job].outputPath = NoPath

\* C7 witness: the text stage failed after checkpoint 50 and the job is
\* settled.
C7_Witness ==
    /\ wpc = "settled"
    /\ werr = "ffmpeg:text"
    /\ checkpoint = 50
    /\ exports[Job].status = "FAILED"

MissingDependency(g) ==
    \/ OnTrack(g.clips, "video_a") = <<>>
    \/ \E i \in 1..Len(g.clips) :
          g.clips[i].track \in {"video_a", "audio"} /\ ~Exists(disk, g.clips[i].asset)
    \/ \E i \in 1..Len(g.overlays) :
          g.overlays[i].type = "image" /\ ~Exists(disk, g.overlays[i].content)

\* C8: a project with no primary-track clip, or one that references an absent
\* asset file (primary clip, audio clip, image overlay), ends FAILED with a
\* message, never COMPLETE.
C8_MissingDependencyFails ==
    (wpc = "settled" /\ MissingDependency(project)) =>
        /\ exports[Job].status = "FAILED"
        /\ exports[Job].errorMessage # NoErr

\* C9: no job fails because of the Track B stage (rendering the Track B clips,
\* the composite command) or the audio-mix stage.
C9_OptionalStagesNeverFail ==
    (wpc = "settled" /\ exports[Job].status = "FAILED") =>
        wstage \notin {"trackB", "audio"}

\* C10: no job fails because of the padding stage (its probe or its encode).
C10_PaddingNeverFails ==
    (wpc = "settled" /\ exports[Job].status = "FAILED") => wstage # "pad"

\* ------------------------------------------ GET /exports/:id/download
\* Serves the export's file whenever that file is on disk.
DownloadIfFileExists(exportId) ==
    IF exportId \notin 1..Len(exports) \/ ~Exists(disk, ExportPath(exportId))
    THEN [code |-> 404, error |-> "Export not ready", file |-> NoPath]
    ELSE [code |-> 200, error |-> NoErr, file |-> ExportPath(exportId)]

\* getExportStatus, the two 404 answers, res.download(exportJob.outputPath).
\* The handler writes nothing; this is its answer in the current state.
Download(exportId) ==
    IF \/ exportId \notin 1..Len(exports)
       \/ exports[exportId].status # "COMPLETE"
       \/ exports[exportId].outputPath = NoPath
    THEN [code |-> 404, error |-> "Export not ready", file |-> NoPath]
    ELSE IF ~Exists(disk, exports[exportId].outputPath)
    THEN [code |-> 404, error |-> "File not found", file |-> NoPath]
    ELSE [code |-> 200, error |-> NoErr, file |-> exports[exportId].outputPath]

\* C11: in every reachable state a COMPLETE job has an outputPath whose file
\* is on disk and holds the whole rendered video, a QUEUED, RUNNING or FAILED
\* job has no outputPath, and the download endpoint serves a file only for a
\* COMPLETE job (and then that job's output file).
C11_NoPartialOutput ==
    \A j \in 1..Len(exports) :
        /\ exports[j].status = "COMPLETE" =>
              /\ exports[j].outputPath = ExportPath(j)
              /\ Exists(disk, exports[j].outputPath)
              /\ disk[exports[j].outputPath].layers # <<>>
              /\ disk[exports[j].outputPath].dur > 0
        /\ exports[j].status \in {"QUEUED", "RUNNING", "FAILED"} =>
              exports[j].outputPath = NoPath
        /\ Download(j).code = 200 =>
              /\ exports[j].status = "COMPLETE"
              /\ Download(j).file = exports[j].outputPath

\* C11 witness: the first job is COMPLETE and is served; the second is still
\* RUNNING with its output file already copied, and is not served.
C11_Witness ==
    /\ Len(exports) = 2
    /\ exports[1].status = "COMPLETE"
    /\ Download(1).code = 200
    /\ exports[2].status = "RUNNING"
    /\ Exists(disk, ExportPath(2))
    /\ Download(2).code = 404

\* ------------------------------------------------------------ numbers
\* A JavaScript number, kept exact: the fraction n/d in lowest terms, d > 0.
\* d = 0 is not a number: NaN, and Undefined for a value that is absent.
NaN == [n |-> 1, d |-> 0]
Undefined == [n |-> 0, d |-> 0]

RECURSIVE Gcd(_, _)
Gcd(a, b) == IF b = 0 THEN a ELSE Gcd(b, a % b)

Abs(a) == IF a < 0 THEN -a ELSE a

Num(n, d) ==
    IF d = 0 THEN NaN
    ELSE [n |-> (IF d < 0 THEN -n ELSE n) \div Gcd(Abs(n), Abs(d)),
          d |-> Abs(d) \div Gcd(Abs(n), Abs(d))]

FromInt(i) == [n |-> i, d |-> 1]

NumAdd(a, b) == Num(a.n * b.d + b.n * a.d, a.d * b.d)
NumSub(a, b) == Num(a.n * b.d - b.n * a.d, a.d * b.d)
NumMul(a, b) == Num(a.n * b.n, a.d * b.d)
NumDiv(a, b) == Num(a.n * b.d, a.d * b.n)
NumLe(a, b) == a.d # 0 /\ b.d # 0 /\ a.n * b.d <= b.n * a.d
NumLt(a, b) == a.d # 0 /\ b.d # 0 /\ a.n * b.d < b.n * a.d

\* ---------------------------------------------------- evaluateSpeedRamp
\* Keyframes are [time, speed] with integer fields; clipLocalTime is a number.
RECURSIVE SumSegments(_, _, _)
\* for (i = 0; i < index; i++) sourceTime += segmentDuration * avgSpeed
SumSegments(kfs, i, index) ==
    IF i >= index THEN FromInt(0)
    ELSE NumAdd(NumMul(FromInt(kfs[i + 1].time - kfs[i].time),
                       NumDiv(FromInt(kfs[i].speed + kfs[i + 1].speed), FromInt(2))),
                SumSegments(kfs, i + 1, index))

\* The accumulated source time without the time before the first keyframe.
GetSourceTimeAtKeyframeNoLead(kfs, index) ==
    SumSegments(kfs, 1, index)

\* index counts from 1 here, from 0 in the source.
GetSourceTimeAtKeyframe(kfs, index) ==
    NumAdd(SumSegments(kfs, 1, index),
           IF Len(kfs) > 0 THEN FromInt(kfs[1].time * kfs[1].speed) ELSE FromInt(0))

\* Before the first keyframe the mapping is 1:1.
RampBeforeIdentity(clipLocalTime, sorted) == clipLocalTime

\* clipLocalTime <= sorted[0].time
RampBefore(clipLocalTime, sorted) ==
    NumMul(clipLocalTime, FromInt(sorted[1].speed))

\* After the last keyframe only the time since that keyframe counts.
RampAfterNoStart(clipLocalTime, sorted) ==
    NumMul(NumSub(clipLocalTime, FromInt(sorted[Len(sorted)].time)),
           FromInt(sorted[Len(sorted)].speed))

\* clipLocalTime >= sorted[sorted.length - 1].time
RampAfter(clipLocalTime, sorted) ==
    NumAdd(GetSourceTimeAtKeyframe(sorted, Len(sorted)),
           NumMul(NumSub(clipLocalTime, FromInt(sorted[Len(sorted)].time)),
                  FromInt(sorted[Len(sorted)].speed)))

\* The body of the loop for the segment kf1 = sorted[i], kf2 = sorted[i + 1]:
\* speed = kf1.speed + (kf2.speed - kf1.speed) * segmentProgress,
\* avgSpeed = (kf1.speed + speed) / 2, sourceOffset = (t - kf1.time) * avgSpeed.
RampBetween(clipLocalTime, sorted, i) ==
    NumAdd(GetSourceTimeAtKeyframe(sorted, i),
           NumMul(NumSub(clipLocalTime, FromInt(sorted[i].time)),
                  NumDiv(NumAdd(FromInt(sorted[i].speed),
                                NumAdd(FromInt(sorted[i].speed),
                                       NumMul(FromInt(sorted[i + 1].speed - sorted[i].speed),
                                              NumDiv(NumSub(clipLocalTime,
                                                            FromInt(sorted[i].time)),
                                                     FromInt(sorted[i + 1].time
                                                         - sorted[i].time))))),
                          FromInt(2))))

RECURSIVE SegmentOf(_, _, _)
\* The first i with kf1.time <= clipLocalTime <= kf2.time; 0 when there is none.
SegmentOf(clipLocalTime, sorted, i) ==
    IF i >= Len(sorted) THEN 0
    ELSE IF /\ NumLe(FromInt(sorted[i].time), clipLocalTime)
            /\ NumLe(clipLocalTime, FromInt(sorted[i + 1].time))
    THEN i
    ELSE SegmentOf(clipLocalTime, sorted, i + 1)

\* evaluateSpeedRamp with its keyframes already sorted.
RampOfSorted(clipLocalTime, sorted) ==
    IF NumLe(clipLocalTime, FromInt(sorted[1].time))
    THEN RampBefore(clipLocalTime, sorted)
    ELSE IF NumLe(FromInt(sorted[Len(sorted)].time), clipLocalTime)
    THEN RampAfter(clipLocalTime, sorted)
    ELSE IF SegmentOf(clipLocalTime, sorted, 1) = 0
    THEN clipLocalTime                                           \* fallback
    ELSE RampBetween(clipLocalTime, sorted, SegmentOf(clipLocalTime, sorted, 1))

EvaluateSpeedRamp(clipLocalTime, kfs) ==
    IF Len(kfs) = 0 THEN clipLocalTime
    ELSE RampOfSorted(clipLocalTime, SortByTime(kfs))

\* ----------------------------------------- calls of evaluateSpeedRamp
MaxKfTime == 2         \* keyframe times are 0..MaxKfTime
MaxKfs == 3            \* keyframes in one list

\* speed: 0x (hold) to 8x
Speeds == {0, 1, 2}
SpeedKeyframes == [time : 0..MaxKfTime, speed : Speeds]
KeyframeLists == UNION {[1..n -> SpeedKeyframes] : n \in 0..MaxKfs}
QueryTimes == 0..(MaxKfTime + 1)

exportVars == <<exports, queue, disk, callerVars, workerVars>>

NoGraphs == [p \in Projects |-> NoProject]

RampInit ==
    /\ Idle
    /\ graphs = NoGraphs
    /\ keyframes \in KeyframeLists
    /\ rampCall = NoCall
    /\ plan = NoCall
    /\ tstate = NoCall
    /\ eres = NoCall

\* One call evaluateSpeedRamp(t, keyframes) and what it returned.
CallEvaluateSpeedRamp(t) ==
    /\ rampCall' = [t |-> FromInt(t), out |-> EvaluateSpeedRamp(FromInt(t), keyframes)]
    /\ UNCHANGED <<exportVars, keyframes, plan, tstate, eres>>

RampNext == \E t \in QueryTimes : CallEvaluateSpeedRamp(t)

RampSpec == RampInit /\ [][RampNext]_vars

AllSpeedsNonNegative(kfs) == \A i \in 1..Len(kfs) : kfs[i].speed >= 0

DistinctTimes(kfs) ==
    \A i, j \in 1..Len(kfs) : i # j => kfs[i].time # kfs[j].time

\* C14: with all speeds >= 0, a call at a later time never returns less than
\* a call at an earlier time, whatever the number and order of the keyframes
\* and wherever the two times lie relative to them.
C14_Monotone ==
    [][(/\ rampCall # NoCall
        /\ rampCall' # NoCall
        /\ AllSpeedsNonNegative(keyframes)
        /\ NumLt(rampCall.t, rampCall'.t)) => NumLe(rampCall.out, rampCall'.out)
    ]_vars

\* C14 witness: a ramp from speed 2 down to a hold, given out of order, called
\* past its last keyframe.
C14_Witness ==
    /\ keyframes = <<[time |-> 2, speed |-> 0], [time |-> 0, speed |-> 2]>>
    /\ rampCall # NoCall
    /\ rampCall.t = FromInt(3)
    /\ rampCall.out = FromInt(2)

\* The speed curve of sorted keyframes with distinct times, at time x: the
\* first speed before the first keyframe, the last speed after the last one,
\* linear in between.
SpeedCurve(x, sorted) ==
    IF x <= sorted[1].time THEN FromInt(sorted[1].speed)
    ELSE IF x >= sorted[Len(sorted)].time THEN FromInt(sorted[Len(sorted)].speed)
    ELSE LET i == CHOOSE k \in 1..(Len(sorted) - 1) :
                      sorted[k].time <= x /\ x < sorted[k + 1].time
         IN  NumAdd(FromInt(sorted[i].speed),
                    NumDiv(FromInt((sorted[i + 1].speed - sorted[i].speed)
                                   * (x - sorted[i].time)),
                           FromInt(sorted[i + 1].time - sorted[i].time)))

RECURSIVE AreaOver(_, _)
\* The area under the curve over the span of cuts, a set of times that holds
\* every keyframe time inside the span: one trapezoid per gap.
AreaOver(cuts, sorted) ==
    IF Cardinality(cuts) < 2 THEN FromInt(0)
    ELSE LET a == CHOOSE x \in cuts : \A y \in cuts : x <= y
             b == CHOOSE x \in cuts \ {a} : \A y \in cuts \ {a} : x <= y
         IN  NumAdd(NumDiv(NumMul(FromInt(b - a),
                                  NumAdd(SpeedCurve(a, sorted), SpeedCurve(b, sorted))),
                           FromInt(2)),
                    AreaOver(cuts \ {a}, sorted))

\* The integral of the speed curve from 0 to t.
Integral(t, sorted) ==
    AreaOver({0, t} \cup {sorted[i].time : i \in {k \in 1..Len(sorted) :
                                                  sorted[k].time < t}}, sorted)

Continuous(sorted) ==
    /\ RampBefore(FromInt(sorted[1].time), sorted)
         = IF Len(sorted) = 1 THEN RampAfter(FromInt(sorted[1].time), sorted)
           ELSE RampBetween(FromInt(sorted[1].time), sorted, 1)
    /\ \A i \in 2..(Len(sorted) - 1) :
          RampBetween(FromInt(sorted[i].time), sorted, i - 1)
            = RampBetween(FromInt(sorted[i].time), sorted, i)
    /\ Len(sorted) > 1 =>
          RampBetween(FromInt(sorted[Len(sorted)].time), sorted, Len(sorted) - 1)
            = RampAfter(FromInt(sorted[Len(sorted)].time), sorted)

\* C15: for a non-empty keyframe list with distinct times and t >= 0 the value
\* returned is the integral from 0 to t of the piecewise-linear speed curve;
\* for [{0, 1}, {2, 2}] it is 3 at t = 2; and at every keyframe time the
\* branch formulas that meet there give the same value.
C15_ExactIntegral ==
    /\ (rampCall # NoCall /\ keyframes # <<>> /\ DistinctTimes(keyframes)) =>
          rampCall.out = Integral(rampCall.t.n, SortByTime(keyframes))
    /\ (/\ rampCall # NoCall
        /\ keyframes = <<[time |-> 0, speed |-> 1], [time |-> 2, speed |-> 2]>>
        /\ rampCall.t = FromInt(2)) => rampCall.out = FromInt(3)
    /\ (keyframes # <<>> /\ DistinctTimes(keyframes)) =>
          Continuous(SortByTime(keyframes))

\* C15 witness: a curve that starts after time 0, given out of order, called
\* at its last keyframe: 2 before the first keyframe (one time unit at speed
\* 2), then the trapezoid from speed 2 to speed 0 over one time unit.
C15_Witness ==
    /\ keyframes = <<[time |-> 2, speed |-> 0], [time |-> 1, speed |-> 2]>>
    /\ rampCall # NoCall
    /\ rampCall.t = FromInt(2)
    /\ rampCall.out = FromInt(3)

\* C16: when two keyframes that follow each other in time order, at times
\* a < b, both have speed 0, every call with a time in [a, b] returns the same
\* value, whatever keyframes come before or after the pair.
C16_FreezeLaw ==
    [][(/\ rampCall # NoCall
        /\ rampCall' # NoCall
        /\ \E i \in 1..(Len(keyframes) - 1) :
              LET sorted == SortByTime(keyframes)
              IN  /\ sorted[i].speed = 0
                  /\ sorted[i + 1].speed = 0
                  /\ sorted[i].time < sorted[i + 1].time
                  /\ NumLe(FromInt(sorted[i].time), rampCall.t)
                  /\ NumLe(rampCall.t, FromInt(sorted[i + 1].time))
                  /\ NumLe(FromInt(sorted[i].time), rampCall'.t)
                  /\ NumLe(rampCall'.t, FromInt(sorted[i + 1].time)))
       => rampCall'.out = rampCall.out
    ]_vars

\* C16 witness: a ramp down to a hold from time 1 to time 2, called at the end
\* of the hold.
C16_Witness ==
    /\ keyframes = <<[time |-> 0, speed |-> 2], [time |-> 1, speed |-> 0],
                     [time |-> 2, speed |-> 0]>>
    /\ rampCall # NoCall
    /\ rampCall.t = FromInt(2)
    /\ rampCall.out = FromInt(1)

\* ------------------------------------------------- interpolateKeyframes
\* A transform keyframe is [time, x, y, scale, rotation, opacity]; a channel
\* the keyframe omits is Undefined.  property is the channel's name.

\* After the last keyframe the first keyframe's value is returned.
AfterLastIsFirst(sorted, property) == sorted[1][property]

\* time >= sorted[sorted.length - 1].time
AfterLast(sorted, property) == sorted[Len(sorted)][property]

\* The body of the loop for kf1 = sorted[i], kf2 = sorted[i + 1].
InterpolateBetween(time, sorted, property, i) ==
    IF sorted[i][property] = Undefined \/ sorted[i + 1][property] = Undefined
    THEN Undefined
    ELSE NumAdd(sorted[i][property],
                NumMul(NumSub(sorted[i + 1][property], sorted[i][property]),
                       NumDiv(NumSub(time, FromInt(sorted[i].time)),
                              FromInt(sorted[i + 1].time - sorted[i].time))))

\* interpolateKeyframes with its keyframes already sorted.
InterpolateSorted(time, sorted, property) ==
    IF NumLe(time, FromInt(sorted[1].time))
    THEN sorted[1][property]
    ELSE IF NumLe(FromInt(sorted[Len(sorted)].time), time)
    THEN AfterLast(sorted, property)
    ELSE IF SegmentOf(time, sorted, 1) = 0
    THEN Undefined
    ELSE InterpolateBetween(time, sorted, property, SegmentOf(time, sorted, 1))

InterpolateKeyframes(time, kfs, property) ==
    IF Len(kfs) = 0 THEN Undefined
    ELSE InterpolateSorted(time, SortByTime(kfs), property)

\* v ?? default
Coalesce(v, default) == IF v = Undefined THEN default ELSE v

\* ----------------------------------------------------- evaluateTimeline
\* Active up to and including endTime.
ActiveClosed(time, item) ==
    NumLe(FromInt(item.startTime), time) /\ NumLe(time, FromInt(item.endTime))

\* time >= item.startTime && time < item.endTime, for a clip or an overlay
Active(time, item) ==
    NumLe(FromInt(item.startTime), time) /\ NumLt(time, FromInt(item.endTime))

\* The source time without the clip's trim.
SourceTimeNoTrim(clip, clipLocalTime) ==
    EvaluateSpeedRamp(clipLocalTime, clip.speedKeyframes)

\* clip.trimStart + evaluateSpeedRamp(clipLocalTime, clip.speedKeyframes)
SourceTime(clip, clipLocalTime) ==
    NumAdd(FromInt(clip.trimStart), EvaluateSpeedRamp(clipLocalTime, clip.speedKeyframes))

ActiveClip(time, clip) ==
    [clipId |-> clip.id,
     track |-> clip.track,
     assetId |-> clip.assetId,
     sourceTime |-> SourceTime(clip, NumSub(time, FromInt(clip.startTime))),
     clipLocalTime |-> NumSub(time, FromInt(clip.startTime))]

Transform(overlayLocalTime, overlay) ==
    [x |-> Coalesce(InterpolateKeyframes(overlayLocalTime, overlay.positionKeyframes, "x"),
                    FromInt(0)),
     y |-> Coalesce(InterpolateKeyframes(overlayLocalTime, overlay.positionKeyframes, "y"),
                    FromInt(0)),
     scale |-> Coalesce(InterpolateKeyframes(overlayLocalTime, overlay.scaleKeyframes,
                                             "scale"), FromInt(1)),
     rotation |-> Coalesce(InterpolateKeyframes(overlayLocalTime,
                                                overlay.rotationKeyframes, "rotation"),
                           FromInt(0)),
     opacity |-> Coalesce(InterpolateKeyframes(overlayLocalTime, overlay.opacityKeyframes,
                                               "opacity"), FromInt(1))]

ActiveOverlay(time, overlay) ==
    [overlayId |-> overlay.id,
     type |-> overlay.type,
     content |-> overlay.content,
     transform |-> Transform(NumSub(time, FromInt(overlay.startTime)), overlay)]

RECURSIVE FindActiveClips(_, _, _, _)
\* for (const clip of clips) ... state.activeClips.push(...)
FindActiveClips(time, clips, i, activeClips) ==
    IF i > Len(clips) THEN activeClips
    ELSE FindActiveClips(time, clips, i + 1,
                         IF Active(time, clips[i])
                         THEN Append(activeClips, ActiveClip(time, clips[i]))
                         ELSE activeClips)

RECURSIVE FindActiveOverlays(_, _, _, _)
\* for (const overlay of overlays) ... state.activeOverlays.push(...)
FindActiveOverlays(time, overlays, i, activeOverlays) ==
    IF i > Len(overlays) THEN activeOverlays
    ELSE FindActiveOverlays(time, overlays, i + 1,
                            IF Active(time, overlays[i])
                            THEN Append(activeOverlays, ActiveOverlay(time, overlays[i]))
                            ELSE activeOverlays)

EvaluateTimeline(time, clips, overlays) ==
    [time |-> time,
     activeClips |-> FindActiveClips(time, clips, 1, <<>>),
     activeOverlays |-> FindActiveOverlays(time, overlays, 1, <<>>)]

\* ------------------------------------------- calls of evaluateTimeline
MaxTransformKfs == 2   \* keyframes in one transform keyframe list

TimelineEnd == MaxKfTime + 1

\* startTime < endTime
Spans == {sp \in (0..TimelineEnd) \X (0..TimelineEnd) : sp[1] < sp[2]}

ClipRamps ==
    {<<>>,
     <<[time |-> 0, speed |-> 1], [time |-> 2, speed |-> 2]>>,
     <<[time |-> 2, speed |-> 0], [time |-> 0, speed |-> 2]>>}

TimelineClip(id, track, sp, trimStart, kfs) ==
    [id |-> id, track |-> track, assetId |-> VideoAsset, startTime |-> sp[1],
     endTime |-> sp[2], trimStart |-> trimStart, speedKeyframes |-> kfs]

\* The values a keyframe has for a channel: none, or a number.
ChannelValues == {Undefined, FromInt(0), FromInt(2)}

TransformKeyframe(time, v) ==
    [time |-> time, x |-> v, y |-> v, scale |-> v, rotation |-> v, opacity |-> v]

TransformKeyframes ==
    {TransformKeyframe(t, v) : t \in 0..MaxKfTime, v \in ChannelValues}

TransformLists == UNION {[1..n -> TransformKeyframes] : n \in 0..MaxTransformKfs}

TimelineOverlay(id, sp, kfs) ==
    [id |-> id, type |-> "text", track |-> "overlay_1", startTime |-> sp[1],
     endTime |-> sp[2], content |-> "title", positionKeyframes |-> kfs,
     scaleKeyframes |-> kfs, rotationKeyframes |-> kfs, opacityKeyframes |-> kfs]

\* The timelines evaluateTimeline is called with: one clip of every shape, two
\* clips in either order of startTime, one overlay of every shape, two
\* overlays, a clip with an overlay, and nothing at all.
Timelines ==
    {Graph(<<>>, <<>>)}
    \cup {Graph(<<TimelineClip("c1", "video_a", sp, trimStart, kfs)>>, <<>>) :
            sp \in Spans, trimStart \in {0, 1}, kfs \in ClipRamps}
    \cup {Graph(<<TimelineClip("c1", "video_a", sp1, 1, <<>>),
                  TimelineClip("c2", "video_b", sp2, 0, <<>>)>>, <<>>) :
            sp1 \in Spans, sp2 \in Spans}
    \cup {Graph(<<>>, <<TimelineOverlay("o1", sp, kfs)>>) :
            sp \in Spans, kfs \in TransformLists}
    \cup {Graph(<<>>, <<TimelineOverlay("o1", sp1, <<>>),
                        TimelineOverlay("o2", sp2, <<>>)>>) :
            sp1 \in Spans, sp2 \in Spans}
    \cup {Graph(<<TimelineClip("c1", "video_a", sp1, 0, <<>>)>>,
                <<TimelineOverlay("o1", sp2, <<>>)>>) :
            sp1 \in Spans, sp2 \in Spans}

TimelineQueryTimes == 0..(TimelineEnd + 1)

TimelineInit ==
    /\ Idle
    /\ graphs \in [Projects -> Timelines]
    /\ keyframes = <<>>
    /\ rampCall = NoCall
    /\ plan = NoCall
    /\ tstate = NoCall
    /\ eres = NoCall

\* One call evaluateTimeline(t, clips, overlays) on a project's timeline and
\* the state it returned.
CallEvaluateTimeline(p, t) ==
    /\ tstate' = [projectId |-> p,
                  state |-> EvaluateTimeline(FromInt(t), graphs[p].clips,
                                             graphs[p].overlays)]
    /\ UNCHANGED <<exportVars, keyframes, rampCall, plan, eres>>

TimelineNext == \E p \in Projects, t \in TimelineQueryTimes : CallEvaluateTimeline(p, t)

TimelineSpec == TimelineInit /\ [][TimelineNext]_vars

\* The timeline and the time of the last evaluateTimeline call.
Evaluated == graphs[tstate.projectId]
EvaluatedAt == tstate.state.time.n

ListedClip(id) ==
    \E k \in 1..Len(tstate.state.activeClips) : tstate.state.activeClips[k].clipId = id

ListedOverlay(id) ==
    \E k \in 1..Len(tstate.state.activeOverlays) :
        tstate.state.activeOverlays[k].overlayId = id

\* C12: every clip and every overlay of the timeline is listed as active
\* exactly when startTime <= t < endTime; none is listed at t = endTime; and
\* of two items where one ends when the other starts, at most one is listed at
\* that time.
C12_HalfOpenActivation ==
    tstate # NoCall =>
        /\ \A i \in 1..Len(Evaluated.clips) :
              /\ ListedClip(Evaluated.clips[i].id)
                   <=> /\ Evaluated.clips[i].startTime <= EvaluatedAt
                       /\ EvaluatedAt < Evaluated.clips[i].endTime
              /\ EvaluatedAt = Evaluated.clips[i].endTime
                   => ~ListedClip(Evaluated.clips[i].id)
        /\ \A i \in 1..Len(Evaluated.overlays) :
              /\ ListedOverlay(Evaluated.overlays[i].id)
                   <=> /\ Evaluated.overlays[i].startTime <= EvaluatedAt
                       /\ EvaluatedAt < Evaluated.overlays[i].endTime
              /\ EvaluatedAt = Evaluated.overlays[i].endTime
                   => ~ListedOverlay(Evaluated.overlays[i].id)
        /\ \A i, j \in 1..Len(Evaluated.clips) :
              (/\ Evaluated.clips[i].endTime = Evaluated.clips[j].startTime
               /\ EvaluatedAt = Evaluated.clips[i].endTime)
                 => ~(/\ ListedClip(Evaluated.clips[i].id)
                      /\ ListedClip(Evaluated.clips[j].id))
        /\ \A i, j \in 1..Len(Evaluated.overlays) :
              (/\ Evaluated.overlays[i].endTime = Evaluated.overlays[j].startTime
               /\ EvaluatedAt = Evaluated.overlays[i].endTime)
                 => ~(/\ ListedOverlay(Evaluated.overlays[i].id)
                      /\ ListedOverlay(Evaluated.overlays[j].id))
        /\ \A i \in 1..Len(Evaluated.clips), j \in 1..Len(Evaluated.overlays) :
              (/\ EvaluatedAt \in {Evaluated.clips[i].endTime,
                                  Evaluated.overlays[j].endTime}
               /\ \/ Evaluated.clips[i].endTime = Evaluated.overlays[j].startTime
                  \/ Evaluated.overlays[j].endTime = Evaluated.clips[i].startTime)
                 => ~(/\ ListedClip(Evaluated.clips[i].id)
                      /\ ListedOverlay(Evaluated.overlays[j].id))

\* C12 witness: two clips that abut at time 2, evaluated at time 2: only the
\* one that starts there is listed.
C12_Witness ==
    /\ tstate # NoCall
    /\ Len(Evaluated.clips) = 2
    /\ Evaluated.clips[1].endTime = 2
    /\ Evaluated.clips[2].startTime = 2
    /\ EvaluatedAt = 2
    /\ Len(tstate.state.activeClips) = 1
    /\ tstate.state.activeClips[1].clipId = "c2"

\* The place of the clip with this id in the list evaluateTimeline was given.
InputIndex(id) == CHOOSE i \in 1..Len(Evaluated.clips) : Evaluated.clips[i].id = id

\* C13: every listed clip has clipLocalTime = t - startTime and sourceTime =
\* trimStart + evaluateSpeedRamp(t - startTime, speedKeyframes), and the listed
\* clips are in the order of the input list.
C13_ClipTimes ==
    tstate # NoCall =>
        /\ \A k \in 1..Len(tstate.state.activeClips) :
              LET clip == Evaluated.clips[InputIndex(tstate.state.activeClips[k].clipId)]
              IN  /\ tstate.state.activeClips[k].clipLocalTime
                       = FromInt(EvaluatedAt - clip.startTime)
                  /\ tstate.state.activeClips[k].sourceTime
                       = NumAdd(FromInt(clip.trimStart),
                                EvaluateSpeedRamp(FromInt(EvaluatedAt - clip.startTime),
                                                  clip.speedKeyframes))
        /\ \A k, l \in 1..Len(tstate.state.activeClips) :
              k < l => InputIndex(tstate.state.activeClips[k].clipId)
                         < InputIndex(tstate.state.activeClips[l].clipId)

\* C13 witness: a clip from 1 to 3 trimmed by 1 with the ramp from speed 2
\* down to a hold at 2, given out of order, one time unit in: source time
\* 1 + 3/2.
C13_Witness ==
    /\ tstate # NoCall
    /\ Len(Evaluated.clips) = 1
    /\ Evaluated.clips[1].startTime = 1
    /\ Evaluated.clips[1].trimStart = 1
    /\ Evaluated.clips[1].speedKeyframes
         = <<[time |-> 2, speed |-> 0], [time |-> 0, speed |-> 2]>>
    /\ EvaluatedAt = 2
    /\ Len(tstate.state.activeClips) = 1
    /\ tstate.state.activeClips[1].clipLocalTime = FromInt(1)
    /\ tstate.state.activeClips[1].sourceTime = Num(5, 2)

\* The channels of a transform: the keyframe list each is read from and the
\* value it has when the interpolator has none.
Channels ==
    {[property |-> "x", list |-> "positionKeyframes", default |-> FromInt(0)],
     [property |-> "y", list |-> "positionKeyframes", default |-> FromInt(0)],
     [property |-> "scale", list |-> "scaleKeyframes", default |-> FromInt(1)],
     [property |-> "rotation", list |-> "rotationKeyframes", default |-> FromInt(0)],
     [property |-> "opacity", list |-> "opacityKeyframes", default |-> FromInt(1)]}

OverlayIndex(id) ==
    CHOOSE i \in 1..Len(Evaluated.overlays) : Evaluated.overlays[i].id = id

\* The keyframe's value for the channel, the channel's default when it has none.
ValueOrDefault(kf, ch) == IF kf[ch.property] = Undefined THEN ch.default ELSE kf[ch.property]

\* C17: in the transform of every listed overlay, a channel whose keyframe list
\* is empty has its default; with a non-empty list of distinct times, at a
\* local time <= the smallest keyframe time it has the earliest keyframe's
\* value, at a local time >= the largest keyframe time the latest keyframe's
\* value, and the default where that keyframe omits the channel.
C17_BoundaryLaw ==
    tstate # NoCall =>
        \A k \in 1..Len(tstate.state.activeOverlays), ch \in Channels :
            LET overlay ==
                    Evaluated.overlays[OverlayIndex(tstate.state.activeOverlays[k].overlayId)]
                kfs == overlay[ch.list]
                local == EvaluatedAt - overlay.startTime
                value == tstate.state.activeOverlays[k].transform[ch.property]
            IN  /\ kfs = <<>> => value = ch.default
                /\ (kfs # <<>> /\ DistinctTimes(kfs)) =>
                      \A i \in 1..Len(kfs) :
                          /\ (/\ \A j \in 1..Len(kfs) : kfs[i].time <= kfs[j].time
                              /\ local <= kfs[i].time)
                                => value = ValueOrDefault(kfs[i], ch)
                          /\ (/\ \A j \in 1..Len(kfs) : kfs[j].time <= kfs[i].time
                              /\ local >= kfs[i].time)
                                => value = ValueOrDefault(kfs[i], ch)

\* C17 witness: an overlay starting at 1 whose keyframes, given latest first,
\* have the value 2 at time 1 and no value at time 0, evaluated at its start
\* and so at the earliest keyframe: the scale is the default 1.
C17_Witness ==
    /\ tstate # NoCall
    /\ Len(Evaluated.overlays) = 1
    /\ Evaluated.overlays[1].startTime = 1
    /\ Evaluated.overlays[1].scaleKeyframes
         = <<TransformKeyframe(1, FromInt(2)), TransformKeyframe(0, Undefined)>>
    /\ EvaluatedAt = 1
    /\ Len(tstate.state.activeOverlays) = 1
    /\ tstate.state.activeOverlays[1].transform.scale = FromInt(1)
    /\ tstate.state.activeOverlays[1].transform.x = FromInt(0)

\* C18: in the transform of every listed overlay, for a channel whose keyframe
\* list has distinct times, when the local time lies strictly between two
\* keyframes k1 and k2 with no keyframe between them and one of them omits the
\* channel, the value is v1 + (v2 - v1) * (time - k1.time) / (k2.time - k1.time)
\* with the channel's default in place of the missing value.
C18_MissingChannelSubstitution ==
    tstate # NoCall =>
        \A k \in 1..Len(tstate.state.activeOverlays), ch \in Channels :
            LET overlay ==
                    Evaluated.overlays[OverlayIndex(tstate.state.activeOverlays[k].overlayId)]
                kfs == overlay[ch.list]
                local == EvaluatedAt - overlay.startTime
                value == tstate.state.activeOverlays[k].transform[ch.property]
            IN  DistinctTimes(kfs) =>
                  \A i, j \in 1..Len(kfs) :
                      (/\ kfs[i].time < local
                       /\ local < kfs[j].time
                       /\ \A m \in 1..Len(kfs) :
                             ~(kfs[i].time < kfs[m].time /\ kfs[m].time < kfs[j].time)
                       /\ \/ kfs[i][ch.property] = Undefined
                          \/ kfs[j][ch.property] = Undefined)
                        => value
                             = NumAdd(ValueOrDefault(kfs[i], ch),
                                      NumDiv(NumMul(NumSub(ValueOrDefault(kfs[j], ch),
                                                           ValueOrDefault(kfs[i], ch)),
                                                    FromInt(local - kfs[i].time)),
                                             FromInt(kfs[j].time - kfs[i].time)))

\* ------------------------------------------------------ the clip routes
\* A request body is a record that has only the fields the caller sent.  The
\* stored clips of a project are graphs[p].clips; an answer is [code, error].
ClipIds == {"k1", "k2"}       \* the ids prisma can hand out: at most two clips
EditTimes == 0..2
ValidTracks == {"video_a", "video_b", "audio"}
EditRamps == {<<>>, <<[time |-> 0, speed |-> 9]>>, <<[time |-> 1, speed |-> -1]>>}

CreateBodies ==
    {[assetId |-> VideoAsset, track |-> track, startTime |-> startTime,
      endTime |-> endTime, speedKeyframes |-> kfs] :
        track \in {"video_a", "text"}, startTime \in EditTimes, endTime \in EditTimes,
        kfs \in EditRamps}
    \cup {[assetId |-> VideoAsset, track |-> "video_a", startTime |-> 0, endTime |-> 2,
           trimStart |-> 1],
          [assetId |-> VideoAsset, track |-> "video_b", startTime |-> 0],
          [track |-> "video_a", startTime |-> 0, endTime |-> 2],
          [assetId |-> VideoAsset, startTime |-> 0, endTime |-> 2]}

PatchBodies ==
    {[endTime |-> 0], [startTime |-> 1, endTime |-> 2], [track |-> "text"],
     [speedKeyframes |-> <<[time |-> 0, speed |-> 9]>>]}

SplitBodies == {[time |-> t] : t \in EditTimes} \cup {[other |-> 0]}

Has(body, field) == field \in DOMAIN body

Answer(code, error) == [code |-> code, error |-> error]

StoredIds(clips) == {clips[i].id : i \in 1..Len(clips)}

IndexOfClip(clips, id) == CHOOSE i \in 1..Len(clips) : clips[i].id = id

\* The checks of router.post('/') in their order; NoErr when all pass.
CreateError(body) ==
    IF ~Has(body, "assetId") \/ ~Has(body, "track")
    THEN "Missing required fields: projectId, assetId, track"
    ELSE IF \/ ~Has(body, "startTime")
            \/ ~Has(body, "endTime")
            \/ body.endTime <= body.startTime
    THEN "Invalid time range"
    ELSE IF body.track \notin ValidTracks
    THEN "Invalid track. Must be one of: video_a, video_b, audio"
    ELSE IF /\ Has(body, "speedKeyframes")
            /\ \E i \in 1..Len(body.speedKeyframes) :
                  body.speedKeyframes[i].speed < 0 \/ body.speedKeyframes[i].speed > 8
    THEN "Speed must be between 0 and 8"
    ELSE NoErr

\* The data of prisma.clip.create in router.post('/').
CreatedClip(id, body) ==
    [id |-> id, track |-> body.track, assetId |-> body.assetId,
     startTime |-> body.startTime, endTime |-> body.endTime,
     trimStart |-> IF Has(body, "trimStart") THEN body.trimStart ELSE 0,
     speedKeyframes |-> IF Has(body, "speedKeyframes") THEN body.speedKeyframes
                        ELSE <<>>]

\* The data of prisma.clip.update in router.patch('/:id'): each field the body
\* has, as it is.
Patchable == {"startTime", "endTime", "trimStart", "speedKeyframes", "track"}

PatchedClip(clip, body) ==
    [f \in DOMAIN clip |-> IF f \in Patchable /\ Has(body, f) THEN body[f] ELSE clip[f]]

StoreClips(p, clips) == graphs' = [graphs EXCEPT ![p].clips = clips]

editFrame == <<exports, queue, disk, cpc, cproj, crec, workerVars, keyframes, rampCall,
               plan, tstate>>

\* POST /clips answered 400: nothing is written.
CreateClipRejected(p, body) ==
    /\ CreateError(body) # NoErr
    /\ eres' = Answer(400, CreateError(body))
    /\ UNCHANGED <<graphs, editFrame>>

\* POST /clips: the new clip is stored.
CreateClip(p, body, id) ==
    /\ CreateError(body) = NoErr
    /\ id \notin StoredIds(graphs[p].clips)
    /\ StoreClips(p, Append(graphs[p].clips, CreatedClip(id, body)))
    /\ eres' = Answer(200, NoErr)
    /\ UNCHANGED editFrame

\* PATCH /clips/:id
UpdateClip(p, id, body) ==
    /\ id \in StoredIds(graphs[p].clips)
    /\ StoreClips(p, [graphs[p].clips EXCEPT ![IndexOfClip(graphs[p].clips, id)] =
                          PatchedClip(@, body)])
    /\ eres' = Answer(200, NoErr)
    /\ UNCHANGED editFrame

\* PATCH /clips/:id of a clip that is not stored: prisma throws.
UpdateClipMissing(p, id) ==
    /\ id \notin StoredIds(graphs[p].clips)
    /\ eres' = Answer(500, "Failed to update clip")
    /\ UNCHANGED <<graphs, editFrame>>

\* DELETE /clips/:id
DeleteClip(p, id) ==
    /\ id \in StoredIds(graphs[p].clips)
    /\ StoreClips(p, SelectSeq(graphs[p].clips, LAMBDA c : c.id # id))
    /\ eres' = Answer(200, NoErr)
    /\ UNCHANGED editFrame

DeleteClipMissing(p, id) ==
    /\ id \notin StoredIds(graphs[p].clips)
    /\ eres' = Answer(500, "Failed to delete clip")
    /\ UNCHANGED <<graphs, editFrame>>

\* The answer of POST /clips/:id/split when it writes nothing; NoErr otherwise.
SplitError(clips, id, body) ==
    IF ~Has(body, "time") THEN Answer(400, "Missing split time")
    ELSE IF id \notin StoredIds(clips) THEN Answer(404, "Clip not found")
    ELSE IF \/ body.time <= clips[IndexOfClip(clips, id)].startTime
            \/ body.time >= clips[IndexOfClip(clips, id)].endTime
    THEN Answer(400, "Split time must be within clip bounds")
    ELSE Answer(200, NoErr)

SplitClipRejected(p, id, body) ==
    /\ SplitError(graphs[p].clips, id, body).code # 200
    /\ eres' = SplitError(graphs[p].clips, id, body)
    /\ UNCHANGED <<graphs, editFrame>>

\* The right half prisma.clip.create stores.
RightClip(clip, time, newId) ==
    [clip EXCEPT !.id = newId,
                 !.startTime = time,
                 !.trimStart = clip.trimStart + (time - clip.startTime)]

\* POST /clips/:id/split: the clip ends at the split time and a new clip
\* starts there.  (trimStart is kept within EditTimes to bound the model.)
SplitClip(p, id, body, newId) ==
    /\ SplitError(graphs[p].clips, id, body).code = 200
    /\ newId \notin StoredIds(graphs[p].clips)
    /\ RightClip(graphs[p].clips[IndexOfClip(graphs[p].clips, id)], body.time,
                 newId).trimStart \in EditTimes
    /\ StoreClips(p, Append([graphs[p].clips EXCEPT
                                ![IndexOfClip(graphs[p].clips, id)].endTime = body.time],
                            RightClip(graphs[p].clips[IndexOfClip(graphs[p].clips, id)],
                                      body.time, newId)))
    /\ eres' = Answer(200, NoErr)
    /\ UNCHANGED editFrame

\* The project has no clips and no overlays yet.
EditInit ==
    /\ Idle
    /\ graphs = [p \in Projects |-> Graph(<<>>, <<>>)]
    /\ keyframes = <<>>
    /\ rampCall = NoCall
    /\ plan = NoCall
    /\ tstate = NoCall
    /\ eres = NoCall

EditNext ==
    \E p \in Projects, id \in ClipIds :
        \/ \E body \in CreateBodies : CreateClipRejected(p, body)
        \/ \E body \in CreateBodies : CreateClip(p, body, id)
        \/ \E body \in PatchBodies : UpdateClip(p, id, body)
        \/ UpdateClipMissing(p, id)
        \/ DeleteClip(p, id)
        \/ DeleteClipMissing(p, id)
        \/ \E body \in SplitBodies : SplitClipRejected(p, id, body)
        \/ \E body \in SplitBodies, newId \in ClipIds : SplitClip(p, id, body, newId)

EditSpec == EditInit /\ [][EditNext]_vars

WellFormed(clip) ==
    /\ clip.endTime > clip.startTime
    /\ clip.track \in ValidTracks
    /\ \A i \in 1..Len(clip.speedKeyframes) :
          clip.speedKeyframes[i].speed >= 0 /\ clip.speedKeyframes[i].speed <= 8

\* C19: after any sequence of create, update and split requests every stored
\* clip has endTime > startTime, a track of video_a, video_b or audio, and all
\* its keyframe speeds in [0, 8].
C19_StoredClipsWellFormed ==
    \A p \in Projects : \A i \in 1..Len(graphs[p].clips) : WellFormed(graphs[p].clips[i])

\* ------------------------------------------- what a clip's render runs
\* The renderSegment call of one segment: its source start, duration, speed.
PlannedCall(clip, sorted, seg) ==
    [sourceStart |-> NumAdd(FromInt(clip.trimStart),
                            EvaluateSpeedRamp(FromInt(seg.start), sorted)),
     duration |-> seg.duration,
     speed |-> seg.speed]

PlannedCalls(clip, sorted, segs) ==
    [i \in 1..Len(segs) |-> PlannedCall(clip, sorted, segs[i])]

\* renderSegmentedClip: the renderSegment calls in order, and what makes the
\* clip's output of them: renameSync of the only segment, or concatenateFiles
\* of all of them.
SegmentedPlan(clip, calls) ==
    [clip |-> clip, calls |-> calls,
     output |-> IF Len(calls) = 1 THEN "rename" ELSE "concat"]

\* renderClipWithSpeedRamp: renderSimpleClip for a clip without keyframes.
RenderPlan(clip) ==
    IF Len(clip.speedKeyframes) = 0
    THEN [clip |-> clip, calls |-> <<>>, output |-> "simple"]
    ELSE SegmentedPlan(clip, PlannedCalls(clip, SortByTime(clip.speedKeyframes),
                                          Segments(clip)))

PlanInit ==
    /\ Idle
    /\ graphs = NoGraphs
    /\ keyframes \in KeyframeLists
    /\ rampCall = NoCall
    /\ plan = NoCall
    /\ tstate = NoCall
    /\ eres = NoCall

\* renderClipWithSpeedRamp(clip) for a clip with these keyframes.
PlanClip(startTime, duration, trimStart) ==
    /\ plan' = RenderPlan([track |-> "video_a", asset |-> VideoAsset,
                           startTime |-> startTime, endTime |-> startTime + duration,
                           trimStart |-> trimStart, speedKeyframes |-> keyframes])
    /\ UNCHANGED <<exportVars, keyframes, rampCall, tstate, eres>>

PlanNext ==
    \E startTime \in 0..1, duration \in 1..(MaxKfTime + 1), trimStart \in 0..1 :
        PlanClip(startTime, duration, trimStart)

PlanSpec == PlanInit /\ [][PlanNext]_vars

\* Where the segment of the keyframe sorted[i] ends.
SegmentEnd(sorted, i, clipDuration) ==
    IF i < Len(sorted) THEN sorted[i + 1].time ELSE clipDuration

\* The keyframes whose segment has a duration above 0.
Remaining(sorted, clipDuration) ==
    {i \in 1..Len(sorted) : SegmentEnd(sorted, i, clipDuration) - sorted[i].time > 0}

\* The k-th of them in time order.
NthRemaining(sorted, clipDuration, k) ==
    CHOOSE i \in Remaining(sorted, clipDuration) :
        Cardinality({j \in Remaining(sorted, clipDuration) : j < i}) = k - 1

\* C20: for a clip with keyframes, the renderSegment calls are, in time order,
\* one per sorted keyframe whose segment (up to the next keyframe, the last up
\* to the clip's duration) has a duration above 0, each with that duration, the
\* keyframe's speed and source start trimStart + evaluateSpeedRamp(kf.time,
\* sorted); exactly one call makes the clip's output by renaming, and
\* concatenation is invoked only with at least two segments.
C20_RenderPlan ==
    (plan # NoCall /\ plan.clip.speedKeyframes # <<>>) =>
        LET sorted == SortByTime(plan.clip.speedKeyframes)
            clipDuration == plan.clip.endTime - plan.clip.startTime
        IN  /\ Len(plan.calls) = Cardinality(Remaining(sorted, clipDuration))
            /\ \A k \in 1..Len(plan.calls) :
                  LET i == NthRemaining(sorted, clipDuration, k)
                  IN  /\ plan.calls[k].speed = sorted[i].speed
                      /\ plan.calls[k].duration
                           = SegmentEnd(sorted, i, clipDuration) - sorted[i].time
                      /\ plan.calls[k].sourceStart
                           = NumAdd(FromInt(plan.clip.trimStart),
                                    EvaluateSpeedRamp(FromInt(sorted[i].time), sorted))
            /\ Len(plan.calls) = 1 => plan.output = "rename"
            /\ plan.output = "concat" => Len(plan.calls) >= 2

\* ---------------------------------------- the audio filters of a segment
\* Speeds are numbers in hundredths, from 0.01 up to the 8 of the clamp.
MaxSpeed == 8

SegmentSpeeds == {Num(k, 100) : k \in 1..(MaxSpeed * 100)}

NumMax(a, b) == IF NumLe(a, b) THEN b ELSE a
NumMin(a, b) == IF NumLe(a, b) THEN a ELSE b

\* remaining.toFixed(4) of a positive number: the nearest multiple of 0.0001
ToFixed4(a) == Num((2 * 10000 * a.n + a.d) \div (2 * a.d), 10000)

RECURSIVE Halve(_, _)
\* while (remaining > 2.0 + 0.001) { filters.push('atempo=2.0'); remaining /= 2.0 }
Halve(filters, remaining) ==
    IF NumLt(Num(2001, 1000), remaining)
    THEN Halve(Append(filters, FromInt(2)), NumDiv(remaining, FromInt(2)))
    ELSE [filters |-> filters, remaining |-> remaining]

RECURSIVE Double(_, _)
\* while (remaining < 0.5 - 0.001) { filters.push('atempo=0.5'); remaining /= 0.5 }
Double(filters, remaining) ==
    IF NumLt(remaining, Num(499, 1000))
    THEN Double(Append(filters, Num(1, 2)), NumDiv(remaining, Num(1, 2)))
    ELSE [filters |-> filters, remaining |-> remaining]

\* The last filter: the remainder clamped to [0.5, 2.0] and printed.
LastFilter(h) ==
    Append(h.filters, ToFixed4(NumMax(Num(1, 2), NumMin(FromInt(2), h.remaining))))

DoubleAfter(h) == Double(h.filters, h.remaining)

\* buildAtempoChain(speed): the atempo factors in order.
BuildAtempoChain(speed) ==
    LastFilter(DoubleAfter(Halve(<<>>, NumMax(Num(1, 2),
                                              NumMin(FromInt(MaxSpeed), speed)))))

\* renderSegment for a speed that is no freeze: the factor of setpts and the
\* atempo chain; neither filter at speed 1.
SegmentFilters(speed) ==
    IF speed = FromInt(1)
    THEN [speed |-> speed, setpts |-> FromInt(1), atempo |-> <<>>]
    ELSE [speed |-> speed, setpts |-> NumDiv(FromInt(1), speed),
          atempo |-> BuildAtempoChain(speed)]

AtempoInit ==
    /\ Idle
    /\ graphs = NoGraphs
    /\ keyframes = <<>>
    /\ rampCall = NoCall
    /\ plan = NoCall
    /\ tstate = NoCall
    /\ eres = NoCall

\* renderSegment(sourcePath, sourceStart, duration, speed, outputPath)
CallRenderSegment(speed) ==
    /\ plan' = SegmentFilters(speed)
    /\ UNCHANGED <<exportVars, keyframes, rampCall, tstate, eres>>

AtempoNext == \E speed \in SegmentSpeeds : CallRenderSegment(speed)

AtempoSpec == AtempoInit /\ [][AtempoNext]_vars

RECURSIVE Product(_)
Product(factors) ==
    IF factors = <<>> THEN FromInt(1) ELSE NumMul(Head(factors), Product(Tail(factors)))

\* C21: for every speed from 0.01 to 8 other than 1, every factor of the
\* atempo chain is within [0.5, 2.0] and the product of the factors is the
\* speed, up to the rounding of the last factor to four decimals (0.00005
\* times the product of the factors before it).
C21_StretchChaining ==
    (plan # NoCall /\ plan.speed # FromInt(1)) =>
        /\ \A i \in 1..Len(plan.atempo) :
              NumLe(Num(1, 2), plan.atempo[i]) /\ NumLe(plan.atempo[i], FromInt(2))
        /\ LET slack == NumMul(Num(1, 20000),
                               Product(SubSeq(plan.atempo, 1, Len(plan.atempo) - 1)))
           IN  /\ NumLe(NumSub(plan.speed, slack), Product(plan.atempo))
               /\ NumLe(Product(plan.atempo), NumAdd(plan.speed, slack))

\* ------------------------------------------- the draws of a text overlay
\* interpolateValue's loop body for sorted[i], sorted[i + 1].
ValueBetween(sorted, prop, time, defaultVal, i) ==
    NumAdd(Coalesce(sorted[i][prop], defaultVal),
           NumMul(NumSub(Coalesce(sorted[i + 1][prop], defaultVal),
                         Coalesce(sorted[i][prop], defaultVal)),
                  NumDiv(NumSub(time, FromInt(sorted[i].time)),
                         FromInt(sorted[i + 1].time - sorted[i].time))))

\* interpolateValue with its keyframes already sorted.
ValueOfSorted(sorted, prop, time, defaultVal) ==
    IF NumLe(time, FromInt(sorted[1].time))
    THEN Coalesce(sorted[1][prop], defaultVal)
    ELSE IF NumLe(FromInt(sorted[Len(sorted)].time), time)
    THEN Coalesce(sorted[Len(sorted)][prop], defaultVal)
    ELSE IF SegmentOf(time, sorted, 1) = 0
    THEN defaultVal
    ELSE ValueBetween(sorted, prop, time, defaultVal, SegmentOf(time, sorted, 1))

InterpolateValue(kfs, prop, time, defaultVal) ==
    IF Len(kfs) = 0 THEN defaultVal
    ELSE ValueOfSorted(SortByTime(kfs), prop, time, defaultVal)

MaxSteps == 60

\* Math.min(Math.ceil(duration * stepsPerSec), 60) for a whole duration
StepCount(duration, stepsPerSec) ==
    IF duration * stepsPerSec < MaxSteps THEN duration * stepsPerSec ELSE MaxSteps

\* One pass of the step loop: the enable window, the local time the values
\* are read at, and the values before scaling and animation presets.
Draw(overlay, t, tEnd) ==
    [absStart |-> NumAdd(FromInt(overlay.startTime), t),
     absEnd |-> NumAdd(FromInt(overlay.startTime), tEnd),
     t |-> t,
     x |-> InterpolateValue(overlay.positionKeyframes, "x", t, FromInt(100)),
     y |-> InterpolateValue(overlay.positionKeyframes, "y", t, FromInt(100)),
     opacity |-> InterpolateValue(overlay.opacityKeyframes, "opacity", t, FromInt(1)),
     scale |-> InterpolateValue(overlay.scaleKeyframes, "scale", t, FromInt(1))]

\* for (let s = 0; s < steps; s++) with stepDuration = duration / steps
StepDraws(overlay, steps) ==
    [s \in 1..steps |->
        Draw(overlay,
             NumMul(FromInt(s - 1), Num(overlay.endTime - overlay.startTime, steps)),
             NumMul(FromInt(s), Num(overlay.endTime - overlay.startTime, steps)))]

\* posKfs[0]?.x ?? 100 and the like: the first keyframe as given, not sorted
FirstOr(kfs, prop, defaultVal) ==
    IF Len(kfs) = 0 THEN defaultVal ELSE Coalesce(kfs[1][prop], defaultVal)

\* The single draw of an overlay that is not animated.
StaticDraw(overlay) ==
    <<[absStart |-> FromInt(overlay.startTime),
       absEnd |-> FromInt(overlay.endTime),
       t |-> FromInt(0),
       x |-> FirstOr(overlay.positionKeyframes, "x", FromInt(100)),
       y |-> FirstOr(overlay.positionKeyframes, "y", FromInt(100)),
       opacity |-> FirstOr(overlay.opacityKeyframes, "opacity", FromInt(1)),
       scale |-> FirstOr(overlay.scaleKeyframes, "scale", FromInt(1))]>>

\* parts[1] || 'none' of content.split('|||')
Animation(overlay) == IF Len(overlay.content) > 1 THEN overlay.content[2] ELSE "none"

HasKeyframeAnimation(overlay) ==
    \/ Len(overlay.positionKeyframes) >= 2
    \/ Len(overlay.opacityKeyframes) >= 2
    \/ Len(overlay.scaleKeyframes) >= 2

\* The drawtext filters applyTextOverlays pushes for one overlay.
TextOverlayDraws(overlay) ==
    IF Animation(overlay) # "none" \/ HasKeyframeAnimation(overlay)
    THEN [overlay |-> overlay, animated |-> TRUE,
          draws |-> StepDraws(overlay,
                              StepCount(overlay.endTime - overlay.startTime,
                                        IF Animation(overlay) # "none" THEN 10 ELSE 2))]
    ELSE [overlay |-> overlay, animated |-> FALSE, draws |-> StaticDraw(overlay)]

\* The text overlays drawn: short and long spans, with and without an
\* animation preset, any keyframe list for opacity and scale, positions
\* keyframed the same way or not at all.
OverlaySpans == {<<0, 1>>, <<1, 3>>, <<2, 3>>, <<0, 7>>, <<1, 32>>}

TextOverlay(sp, parts, posKfs, kfs) ==
    [id |-> "o1", type |-> "text", track |-> "overlay_1", startTime |-> sp[1],
     endTime |-> sp[2], content |-> parts, positionKeyframes |-> posKfs,
     scaleKeyframes |-> kfs, rotationKeyframes |-> <<>>, opacityKeyframes |-> kfs]

TextOverlays ==
    {TextOverlay(sp, parts, posKfs, kfs) :
        sp \in OverlaySpans, parts \in {<<"title">>, <<"title", "fade">>},
        posKfs \in {<<>>}, kfs \in TransformLists}
    \cup {TextOverlay(sp, parts, kfs, kfs) :
            sp \in OverlaySpans, parts \in {<<"title">>, <<"title", "fade">>},
            kfs \in TransformLists}

DrawInit ==
    /\ Idle
    /\ graphs \in [Projects -> {Graph(<<>>, <<o>>) : o \in TextOverlays}]
    /\ keyframes = <<>>
    /\ rampCall = NoCall
    /\ plan = NoCall
    /\ tstate = NoCall
    /\ eres = NoCall

\* applyTextOverlays(videoPath, overlays): the filters of the project's overlay.
CallApplyTextOverlays(p) ==
    /\ plan' = TextOverlayDraws(graphs[p].overlays[1])
    /\ UNCHANGED <<exportVars, keyframes, rampCall, tstate, eres>>

DrawNext == \E p \in Projects : CallApplyTextOverlays(p)

DrawSpec == DrawInit /\ [][DrawNext]_vars

\* C22: an animated text overlay is drawn in N steps, 1 <= N <= 60; step s
\* (from 0) has the window from startTime + s*d to startTime + (s+1)*d with
\* d = (endTime - startTime)/N, so each window starts where the one before it
\* ends, the first at startTime and the last ending at endTime; and the values
\* drawn in step s are the interpolation at the local time (s + 1/2)*d.
C22_Discretization ==
    (plan # NoCall /\ plan.animated) =>
        LET N == Len(plan.draws)
            o == plan.overlay
            d == Num(o.endTime - o.startTime, N)
        IN  /\ 1 <= N
            /\ N <= 60
            /\ plan.draws[1].absStart = FromInt(o.startTime)
            /\ plan.draws[N].absEnd = FromInt(o.endTime)
            /\ \A s \in 1..N :
                  /\ plan.draws[s].absStart
                       = NumAdd(FromInt(o.startTime), NumMul(FromInt(s - 1), d))
                  /\ plan.draws[s].absEnd
                       = NumAdd(FromInt(o.startTime), NumMul(FromInt(s), d))
                  /\ s < N => plan.draws[s].absEnd = plan.draws[s + 1].absStart
                  /\ plan.draws[s].opacity
                       = InterpolateValue(o.opacityKeyframes, "opacity",
                                          NumMul(Num(2 * s - 1, 2), d), FromInt(1))
                  /\ plan.draws[s].scale
                       = InterpolateValue(o.scaleKeyframes, "scale",
                                          NumMul(Num(2 * s - 1, 2), d), FromInt(1))
                  /\ plan.draws[s].x
                       = InterpolateValue(o.positionKeyframes, "x",
                                          NumMul(Num(2 * s - 1, 2), d), FromInt(100))
                  /\ plan.draws[s].y
                       = InterpolateValue(o.positionKeyframes, "y",
                                          NumMul(Num(2 * s - 1, 2), d), FromInt(100))

\* The transform evaluateTimeline gives the overlay at timeline time
\* startTime + t.
PreviewTransform(o, t) ==
    EvaluateTimeline(NumAdd(FromInt(o.startTime), t), <<>>, <<o>>).activeOverlays[1].transform

\* C24: for every draw of an animated text overlay, the x, y, scale and opacity
\* interpolateValue computed at the draw's local time t are the values
\* evaluateTimeline returns at timeline time startTime + t.
C24_PreviewExportParity ==
    (plan # NoCall /\ plan.animated) =>
        \A s \in 1..Len(plan.draws) :
            /\ plan.draws[s].x = PreviewTransform(plan.overlay, plan.draws[s].t).x
            /\ plan.draws[s].y = PreviewTransform(plan.overlay, plan.draws[s].t).y
            /\ plan.draws[s].scale = PreviewTransform(plan.overlay, plan.draws[s].t).scale
            /\ plan.draws[s].opacity
                 = PreviewTransform(plan.overlay, plan.draws[s].t).opacity

\* ------------------------------------------------------ stage ordering
\* The place of a stage's mark in the order secondary-track composite,
\* pad-to-length, text overlays, image overlays, audio mix; 0 for the marks of
\* the primary-track render.
StageRank(layer) ==
    CASE layer = "pip" -> 1 [] layer = "pad" -> 2 [] layer = "text" -> 3
      [] layer = "image" -> 4 [] layer = "audio" -> 5 [] OTHER -> 0

\* C23: each stage works on the artifact of the stage before it, so the output
\* of a successful renderProject carries the marks of the stages that ran in
\* the order they ran: primary-track render, secondary-track composite,
\* pad-to-length, text overlays, image overlays, audio mix; and the finalized
\* output is the artifact of the last stage that ran.
C23_StageOrder ==
    (wpc = "finally" /\ werr = NoErr) =>
        /\ disk[outputPath] = disk[baseVideo]
        /\ \A i, j \in 1..Len(disk[outputPath].layers) :
              i < j => StageRank(disk[outputPath].layers[i])
                         <= StageRank(disk[outputPath].layers[j])

\* ------------------------------- the caller's keyframe list, in any order
\* Lists with pairwise distinct times, of speed keyframes or of transform
\* keyframes.
IsSpeedList(kfs) == IF Len(kfs) = 0 THEN TRUE ELSE "speed" \in DOMAIN kfs[1]

OrderInit ==
    /\ Idle
    /\ graphs = NoGraphs
    /\ keyframes \in {kfs \in KeyframeLists \cup TransformLists : DistinctTimes(kfs)}
    /\ rampCall = NoCall
    /\ plan = NoCall
    /\ tstate = NoCall
    /\ eres = NoCall

\* One call interpolateKeyframes(t, keyframes, property) and what it returned;
\* the function sorts a copy ([...keyframes]), the caller's list stays.
CallInterpolateKeyframes(t, property) ==
    /\ rampCall' = [t |-> FromInt(t), property |-> property,
                    out |-> InterpolateKeyframes(FromInt(t), keyframes, property)]
    /\ keyframes' = keyframes
    /\ UNCHANGED <<exportVars, plan, tstate, eres>>

\* One call on each list.
OrderNext ==
    /\ rampCall = NoCall
    /\ \/ \E t \in QueryTimes : IsSpeedList(keyframes) /\ CallEvaluateSpeedRamp(t)
       \/ \E t \in QueryTimes, property \in {"x", "y", "scale", "rotation", "opacity"} :
             ~IsSpeedList(keyframes) /\ CallInterpolateKeyframes(t, property)

OrderSpec == OrderInit /\ [][OrderNext]_vars

\* The list in every order.
Reorderings(kfs) ==
    {[i \in 1..Len(kfs) |-> kfs[f[i]]] :
        f \in {g \in [1..Len(kfs) -> 1..Len(kfs)] :
                 \A i, j \in 1..Len(kfs) : i # j => g[i] # g[j]}}

\* The same call on another list.
CallAgain(call, kfs) ==
    IF "property" \in DOMAIN call
    THEN InterpolateKeyframes(call.t, kfs, call.property)
    ELSE EvaluateSpeedRamp(call.t, kfs)

\* C25: a call of evaluateSpeedRamp or interpolateKeyframes on a list with
\* pairwise distinct times leaves the caller's list as it was, and returns
\* what the same call returns on every reordering of the list.
C25_OrderIndependence ==
    [][/\ keyframes' = keyframes
       /\ DistinctTimes(keyframes) =>
             \A kfs \in Reorderings(keyframes) : CallAgain(rampCall', kfs) = rampCall'.out
    ]_vars

\* C25 witness: a ramp given latest keyframe first, called between its
\* keyframes; and a transform list given latest first, called at its end.
C25_Witness ==
    /\ rampCall # NoCall
    /\ \/ /\ keyframes = <<[time |-> 2, speed |-> 2], [time |-> 0, speed |-> 1]>>
          /\ rampCall.t = FromInt(1)
          /\ rampCall.out = Num(5, 4)
       \/ /\ keyframes = <<TransformKeyframe(2, FromInt(2)), TransformKeyframe(0, FromInt(0))>>
          /\ rampCall.t = FromInt(1)
          /\ rampCall.out = FromInt(1)

\* ------------------------------------------- steps that can themselves fail
\* renderQueue.add rejects (the queue's store is unreachable): createExportJob
\* throws after the record was created, the route answers 500.
CreateExportJobEnqueueFails(c) ==
    /\ cpc[c] = "enqueue"
    /\ cpc' = [cpc EXCEPT ![c] = "respond"]
    /\ UNCHANGED <<graphs, cproj, crec, exports, queue, disk, workerVars, engineVars>>

\* completeExport rejects: the handler's catch block runs.
WorkerCompleteFails ==
    /\ wpc = "complete"
    /\ werr' = "completeExport failed"
    /\ wstage' = "complete"
    /\ wpc' = "catch"
    /\ UNCHANGED <<exports, queue, disk, callerVars, engineVars, wjob, project,
                   outputPath, tempFiles, baseVideo, checkpoint>>

\* failExport rejects inside the catch block: the handler throws that error
\* and the record is not written.
WorkerFailFails ==
    /\ wpc = "catch"
    /\ wpc' = "settled"
    /\ UNCHANGED <<exports, queue, disk, callerVars, engineVars, wjob, renderVars,
                   checkpoint>>

\* One step of the worker, whatever its outcome.
WorkerStep ==
    \/ WorkerTake
    \/ WorkerStart
    \/ RenderLoad
    \/ RenderTry
    \/ RenderTrackA
    \/ RenderPad
    \/ RenderTrackB
    \/ RenderText
    \/ RenderImage
    \/ RenderAudio
    \/ RenderFinal
    \/ RenderFinally
    \/ WorkerComplete
    \/ WorkerCompleteFails
    \/ WorkerFail
    \/ WorkerFailFails
    \/ WorkerDone

\* One step of the client's request, whatever its outcome.
CallerStep ==
    \/ PostMissingProjectId(SeqCaller)
    \/ \E p \in Projects : CreateExportJobFind(SeqCaller, p)
    \/ CreateExportJobCreate(SeqCaller)
    \/ CreateExportJobEnqueue(SeqCaller)
    \/ CreateExportJobEnqueueFails(SeqCaller)
    \/ Respond(SeqCaller)

LiveNext == CallerStep \/ WorkerStep

\* The project exported: one clip alone, or a project that has every track
\* and every kind of overlay.
LiveGraphs ==
    {Graph(<<SimpleClip("video_a", 1)>>, <<>>),
     Graph(<<SimpleClip("video_a", 1), SimpleClip("video_b", 1),
             Clip("audio", 1, <<>>, AudioAsset), SimpleClip("video_a", 2)>>,
           <<Overlay("text", LongEnd, NoPath),
             Overlay("image", ClipLen, ImageAsset),
             Overlay("image", LongEnd, ImageAsset)>>)}

LiveInit ==
    /\ Idle
    /\ graphs \in [Projects -> LiveGraphs]
    /\ keyframes = <<>>
    /\ rampCall = NoCall
    /\ plan = NoCall
    /\ tstate = NoCall
    /\ eres = NoCall

\* The worker and the request handler are scheduled fairly: a step that stays
\* possible is taken.
LiveSpec == LiveInit /\ [][LiveNext]_vars /\ WF_vars(WorkerStep) /\ WF_vars(CallerStep)

\* Record j exists and is in a final status.
Settled(j) ==
    IF Len(exports) >= j THEN exports[j].status \in {"COMPLETE", "FAILED"} ELSE FALSE

\* C26: every Export record that was created eventually is COMPLETE or FAILED.
C26_EveryJobSettles ==
    \A j \in 1..MaxExports :
        (Len(exports) >= j) ~> Settled(j)

\* ------------------------------------ what the segments of a clip cover
RECURSIVE TotalDuration(_, _)
\* The durations of the calls from the k-th on, added up.
TotalDuration(calls, k) ==
    IF k > Len(calls) THEN 0 ELSE calls[k].duration + TotalDuration(calls, k + 1)

\* The clip-local unit intervals [u, u + 1) that the segments render (keyframe
\* times and clip durations are whole numbers here).
Covered(segs) ==
    {u \in 0..(2 * MaxKfTime + 1) :
        \E i \in 1..Len(segs) :
            segs[i].start <= u /\ u < segs[i].start + segs[i].duration}

\* C27: for a clip with at least one speed keyframe the rendered segments
\* partition the clip-local interval [0, endTime - startTime): at least one
\* segment is rendered, the durations add up to the clip's duration and the
\* intervals rendered are exactly those of the clip.
C27_SegmentCoverage ==
    (plan # NoCall /\ plan.clip.speedKeyframes # <<>>) =>
        LET clipDuration == plan.clip.endTime - plan.clip.startTime
        IN  /\ Len(plan.calls) >= 1
            /\ TotalDuration(plan.calls, 1) = clipDuration
            /\ Covered(Segments(plan.clip)) = 0..(clipDuration - 1)

\* The source time at which a renderSegment call stops reading:
\* setStartTime(sourceStart).setDuration(duration * speed).
SourceEnd(call) ==
    NumAdd(call.sourceStart, NumMul(FromInt(call.duration), FromInt(call.speed)))

\* C28: the source range a segment reads ends where the next segment's begins.
C28_SourceContinuity ==
    (plan # NoCall /\ plan.clip.speedKeyframes # <<>>) =>
        \A k \in 1..(Len(plan.calls) - 1) :
            SourceEnd(plan.calls[k]) = plan.calls[k + 1].sourceStart

\* ------------------------------------ where a track's clips land in the base
MaxTrackTime == 5
MaxTrackClips == 3

\* The length of the file renderClipWithSpeedRamp makes of a clip.
RenderedDuration(clip) ==
    IF Len(clip.speedKeyframes) = 0 THEN clip.endTime - clip.startTime
    ELSE TotalDuration(RenderPlan(clip).calls, 1)

RECURSIVE ConcatBegins(_, _, _)
\* Where each file begins in what the concat demuxer makes of the list: the
\* files follow each other without a gap, the first at 0.
ConcatBegins(clips, i, at) ==
    IF i > Len(clips) THEN <<>>
    ELSE <<at>> \o ConcatBegins(clips, i + 1, at + RenderedDuration(clips[i]))

\* renderTrackClips: the clips rendered in the order given, one file returned
\* as it is, several concatenated.
TrackPlacement(clips) ==
    [clips |-> clips, begins |-> ConcatBegins(clips, 1, 0),
     output |-> IF Len(clips) = 1 THEN "clip" ELSE "concat"]

TrackClip(startTime, endTime, kfs) ==
    [track |-> "video_a", asset |-> VideoAsset, startTime |-> startTime,
     endTime |-> endTime, trimStart |-> 0, speedKeyframes |-> kfs]

TrackClipChoices ==
    {TrackClip(s, e, k) : s \in 0..MaxTrackTime, e \in 0..MaxTrackTime,
                          k \in {<<>>, <<[time |-> 0, speed |-> 2]>>}}

\* Primary tracks as loaded: in startTime order, no two clips overlapping.
PrimaryTracks ==
    {t \in UNION {[1..n -> TrackClipChoices] : n \in 1..MaxTrackClips} :
        /\ \A i \in 1..Len(t) : t[i].startTime < t[i].endTime
        /\ \A i \in 1..(Len(t) - 1) : t[i].endTime <= t[i + 1].startTime}

PlaceInit ==
    /\ Idle
    /\ graphs = NoGraphs
    /\ keyframes = <<>>
    /\ rampCall = NoCall
    /\ plan = NoCall
    /\ tstate = NoCall
    /\ eres = NoCall

\* renderTrackClips(trackA, tempFiles) of step 1.
CallRenderTrackClips(clips) ==
    /\ plan' = TrackPlacement(clips)
    /\ UNCHANGED <<exportVars, keyframes, rampCall, tstate, eres>>

PlaceNext == \E clips \in PrimaryTracks : CallRenderTrackClips(clips)

PlaceSpec == PlaceInit /\ [][PlaceNext]_vars

\* C29: in the base made of the primary track, every clip's content begins at
\* the clip's timeline startTime.
C29_TimelinePlacement ==
    plan # NoCall =>
        \A i \in 1..Len(plan.clips) : plan.begins[i] = plan.clips[i].startTime

\* ------------------------------------------- a split and what is played
\* The clip that is split: its ramp is none, one constant speed, or a ramp.
SplitRamps ==
    {<<>>,
     <<[time |-> 0, speed |-> 1]>>,
     <<[time |-> 0, speed |-> 2]>>,
     <<[time |-> 0, speed |-> 1], [time |-> 2, speed |-> 2]>>,
     <<[time |-> 1, speed |-> 2]>>}

SplitSubjects ==
    {TimelineClip("k1", track, <<s, e>>, trimStart, kfs) :
        track \in {"video_a", "video_b"}, s \in 0..1, e \in 2..TimelineEnd,
        trimStart \in 0..1, kfs \in SplitRamps}

\* The project holds one clip.
SplitInit ==
    /\ Idle
    /\ graphs \in {[p \in Projects |-> Graph(<<c>>, <<>>)] : c \in SplitSubjects}
    /\ keyframes = <<>>
    /\ rampCall = NoCall
    /\ plan = NoCall
    /\ tstate = NoCall
    /\ eres = NoCall

SplitNext ==
    \E p \in Projects, id \in ClipIds, body \in SplitBodies \cup {[time |-> TimelineEnd]} :
        \/ SplitClipRejected(p, id, body)
        \/ \E newId \in ClipIds : SplitClip(p, id, body, newId)

SplitSpec == SplitInit /\ [][SplitNext]_vars

\* Query times: every half unit of the timeline.
HalfTimes == {Num(k, 2) : k \in 0..(2 * TimelineEnd)}

\* What evaluateTimeline reports as played at a time: track and source time of
\* every active clip.
Played(clips, time) ==
    LET active == EvaluateTimeline(time, clips, <<>>).activeClips
    IN  {[track |-> active[k].track, sourceTime |-> active[k].sourceTime] :
            k \in 1..Len(active)}

\* The step stored the two halves of clips[1], cut at a time inside it.
IsSplitOf(clips, after) ==
    /\ Len(after) = Len(clips) + 1
    /\ after[1].startTime = clips[1].startTime
    /\ after[2].endTime = clips[1].endTime
    /\ after[1].endTime = after[2].startTime
    /\ clips[1].startTime < after[1].endTime /\ after[1].endTime < clips[1].endTime
    /\ after[1].track = clips[1].track /\ after[2].track = clips[1].track

\* C30: a split answered 200 leaves a left clip [startTime, T) and a right clip
\* [T, endTime) on the same track, and at every time the two report the source
\* time the clip reported before; a split that is rejected leaves the stored
\* clips as they were.
C30_SplitPreservesEvaluation ==
    [][\A p \in Projects :
          IF eres' = NoCall THEN TRUE
          ELSE IF eres'.code = 200
          THEN /\ IsSplitOf(graphs[p].clips, graphs'[p].clips)
               /\ \A t \in HalfTimes :
                     Played(graphs'[p].clips, t) = Played(graphs[p].clips, t)
          ELSE graphs' = graphs]_vars

====
